---- MODULE Spec2Model ----
(***************************************************************************)
(* Indexing pipeline of git-rag-chat: RepositoryIndexer (full, incremental)*)
(* and OptimizedRepositoryIndexer (parallel full run) working on one       *)
(* repository record, its indexed-file records (MetadataDB) and its        *)
(* ChromaDB collection (VectorStore).                                      *)
(***************************************************************************)
EXTENDS Integers, Sequences, FiniteSets, TLC

(* ------------------------------ bounds --------------------------------- *)
MaxEdits == 1
MaxRuns == 2
MaxCallers == 2
MaxResults == 2
MaxChunks == 3
MaxRank == 3
MaxLists == 2
MaxLines == 14
MaxTexts == 4
MaxEvents == 3
MaxTime == 4
MaxTextLines == 4
MaxPyLines == 4

(* --------------------------- program constants ------------------------- *)
\* OptimizedRepositoryIndexer(batch_size=...): chunks per embed/store call.
BatchSize == 2

\* CodeChunker(max_chunk_size=..., overlap=...), in tokens of 4 characters.
max_chunk_size == 6
overlap == 1

(* ------------------------------ the files ------------------------------ *)
PyFile == [dir |-> "src", name |-> "a.py", ext |-> ".py"]
MdFile == [dir |-> "docs", name |-> "b.md", ext |-> ".md"]
PngFile == [dir |-> "img", name |-> "c.png", ext |-> ".png"]

\* The files of the HEAD tree, in the order get_tracked_files lists them.
TrackedFiles == <<PyFile, MdFile, PngFile>>

Paths == {TrackedFiles[i] : i \in 1..Len(TrackedFiles)}

Rank(p) == CHOOSE i \in 1..Len(TrackedFiles) : TrackedFiles[i] = p

\* File contents.  Blank: only whitespace.  Binary: bytes that are not UTF-8.
Blank == 0
OneUnit == 1
TwoUnits == 2
Binary == 3
Contents == {Blank, OneUnit, TwoUnits, Binary}

\* What a file of the given kind can hold.
ContentsOf(p) ==
    IF p.ext = ".png" THEN {Binary}
    ELSE IF p.ext = ".md" THEN Contents
    ELSE Contents \ {Blank}

binary_extensions == {".pyc", ".pyo", ".so", ".dylib", ".dll", ".exe",
                      ".jpg", ".jpeg", ".png", ".gif", ".ico", ".pdf",
                      ".zip", ".tar", ".gz", ".bz2", ".xz",
                      ".db", ".sqlite", ".sqlite3"}

hidden_allowed == {".gitignore", ".env.example"}

HiddenNames == {".gitignore", ".env.example", ".env", ".hidden"}

skip_dirs == {"node_modules", "__pycache__", ".git", ".venv", "venv", "env",
              "dist", "build"}

should_index_file(p) ==
    /\ p.ext \notin binary_extensions
    /\ ~(p.name \in HiddenNames /\ p.name \notin hidden_allowed)
    /\ p.dir \notin skip_dirs

(* A path as the code passes it around: relative to the repository root    *)
(* (Path(item.path) of get_tracked_files) or absolute (repo_path / path).  *)
RelKey(p) == [p |-> p, abs |-> FALSE]
AbsKey(p) == [p |-> p, abs |-> TRUE]
FileKeys == {RelKey(p) : p \in Paths} \cup {AbsKey(p) : p \in Paths}

NoFile == 99
EmptyHash == 0
HashBase == 100

Callers == 1..MaxCallers

VARIABLES
    fs,          \* working tree: path -> content
    head,        \* HEAD commit: path -> content
    headCommit,  \* number of the HEAD commit
    gitValid,    \* the repository path still holds a Git repository
    cwdInRepo,   \* the process's working directory is the repository root
    dupPolicy,   \* what collection.add does with an id that already exists
    edits,       \* edits made so far
    repo,        \* the repository record
    files,       \* indexed_files table: FileKey -> record
    collection,  \* the ChromaDB collection: id -> chunk
    assigned,    \* history: the ids add_chunks has generated, with their chunk
    run,         \* per caller: the indexing call in progress
    runs,        \* calls started so far
    last,        \* the call that ended most recently
    quiet,       \* full runs completed in a row with no edit in between
    call,        \* request side: the function called and its arguments
    local        \* request side: the local variables of that call, and for
                 \* the indexing route the repository's embedding columns

envVars == <<fs, head, headCommit, gitValid, cwdInRepo, dupPolicy, edits>>
dbVars == <<repo, files, collection, assigned>>
runVars == <<run, runs, last, quiet>>
callVars == <<call, local>>
vars == <<fs, head, headCommit, gitValid, cwdInRepo, dupPolicy, edits,
          repo, files, collection, assigned, run, runs, last, quiet,
          call, local>>

(* ------------------------- file system and hash ------------------------ *)
\* open(path): a relative path resolves against the working directory.
ReadFile(k) == IF k.abs \/ cwdInRepo THEN fs[k.p] ELSE NoFile

\* get_tracked_files: the files of the HEAD commit's tree; a path that holds
\* NoFile is not in the repository.
get_tracked_files == {p \in Paths : head[p] # NoFile}

\* _compute_file_hash: digest of the bytes, '' when the file cannot be opened.
compute_file_hash(k) ==
    IF ReadFile(k) = NoFile THEN EmptyHash ELSE HashBase + ReadFile(k)

\* open(..., encoding='utf-8').read() succeeded.
Decodes(c) == c \notin {NoFile, Binary}

\* parse_file / chunk_text / chunk_code: the names of the chunks of a content.
UnitNames(c) ==
    IF c = OneUnit THEN <<"f">>
    ELSE IF c = TwoUnits THEN <<"f", "g">>
    ELSE <<>>

\* The chunks _index_file / _process_file build for the file at key k.
FinalChunks(k, commit, uncommitted) ==
    [i \in 1..Len(UnitNames(ReadFile(k))) |->
        [name |-> UnitNames(ReadFile(k))[i],
         file_path |-> k,
         src |-> ReadFile(k),
         commit_hash |-> commit,
         is_uncommitted |-> uncommitted]]

(* ----------------------------- vector store ---------------------------- *)
\* chunk_id = f"{collection_name}_{i + idx}_{name}": position in the call's
\* list and chunk name.
ChunkId(pos, chunk) == <<pos - 1, chunk.name>>

IdsOf(chunks) == {ChunkId(i, chunks[i]) : i \in 1..Len(chunks)}

\* The ids one add_chunks call generates, each with the chunk it names.
Assigned(chunks) ==
    {[id |-> ChunkId(i, chunks[i]), p |-> chunks[i].file_path.p,
      src |-> chunks[i].src] : i \in 1..Len(chunks)}

\* collection.add of one add_chunks call refuses ids already present when
\* the store raises on duplicates.
AddRaises(coll, chunks) ==
    dupPolicy = "raise" /\ IdsOf(chunks) \cap DOMAIN coll # {}

\* add_chunks: ids already present keep their stored chunk.
add_chunks(coll, chunks) ==
    [id \in DOMAIN coll \cup IdsOf(chunks) |->
        IF id \in DOMAIN coll THEN coll[id]
        ELSE chunks[CHOOSE i \in 1..Len(chunks) : ChunkId(i, chunks[i]) = id]]

\* delete_chunks(collection_name, where={'file_path': ...})
delete_chunks(coll, k) ==
    [id \in {x \in DOMAIN coll : coll[x].file_path # k} |-> coll[id]]

(* ------------------------------ metadata db ---------------------------- *)
upsert_file(tbl, k, hash, count) ==
    [x \in DOMAIN tbl \cup {k} |->
        IF x = k THEN [file_hash |-> hash, chunk_count |-> count] ELSE tbl[x]]

EmptyFn == [x \in {} |-> 0]

IdleRun == [pc |-> "idle", kind |-> "none", force |-> FALSE, todo |-> {},
            latest |-> 0, total_chunks |-> 0, indexed_files |-> 0,
            skipped_files |-> 0, failed_files |-> 0,
            all_chunks |-> <<>>, file_metadata |-> <<>>, batch |-> 0,
            written |-> <<>>, total_before |-> 0, errors |-> 0]

NoLast == [kind |-> "none", force |-> FALSE, outcome |-> "none",
           indexed_files |-> 0, skipped_files |-> 0, failed_files |-> 0,
           total_chunks |-> 0, total_files |-> 0, caller |-> 0,
           quiet |-> 0, total_before |-> 0, errors |-> 0]

\* No function of the retrieval side has been called.
NoCall == [fn |-> "none"]

Init ==
    /\ fs \in {f \in [Paths -> Contents] : \A p \in Paths : f[p] \in ContentsOf(p)}
    /\ head = fs
    /\ headCommit = 1
    /\ gitValid = TRUE
    /\ cwdInRepo \in BOOLEAN
    /\ dupPolicy \in {"raise", "ignore"}
    /\ edits = 0
    /\ repo = [indexing_status |-> "pending", total_chunks |-> 0,
               total_files |-> 0, last_commit_hash |-> 0]
    /\ files = EmptyFn
    /\ collection = EmptyFn
    /\ assigned = {}
    /\ run = [c \in Callers |-> IdleRun]
    /\ runs = 0
    /\ last = NoLast
    /\ quiet = 0
    /\ call = NoCall
    /\ local = NoCall

(* ----------------------------- environment ----------------------------- *)
\* A developer saves a new version of a file in the working tree.
EditFile(p, c) ==
    /\ edits < MaxEdits
    /\ c \in ContentsOf(p)
    /\ c # fs[p]
    /\ fs' = [fs EXCEPT ![p] = c]
    /\ edits' = edits + 1
    /\ quiet' = 0
    /\ UNCHANGED <<head, headCommit, gitValid, cwdInRepo, dupPolicy,
                   repo, files, collection, assigned, run, runs, last>>

\* git commit -a: HEAD takes the working tree.
Commit ==
    /\ fs # head
    /\ head' = fs
    /\ headCommit' = headCommit + 1
    /\ quiet' = 0
    /\ UNCHANGED <<fs, gitValid, cwdInRepo, dupPolicy, edits,
                   repo, files, collection, assigned, run, runs, last>>

\* The repository path stops being a Git repository (.git removed).
RemoveGitDir ==
    /\ gitValid
    /\ gitValid' = FALSE
    /\ quiet' = 0
    /\ UNCHANGED <<fs, head, headCommit, cwdInRepo, dupPolicy, edits,
                   repo, files, collection, assigned, run, runs, last>>

(* ------------------------ how a call ends ------------------------------ *)
Result(c, outcome) ==
    [kind |-> run[c].kind, force |-> run[c].force, outcome |-> outcome,
     indexed_files |-> run[c].indexed_files,
     skipped_files |-> run[c].skipped_files,
     failed_files |-> run[c].failed_files,
     total_chunks |-> run[c].total_chunks,
     total_files |-> Cardinality(get_tracked_files),
     caller |-> c,
     quiet |-> 0,
     total_before |-> run[c].total_before,
     errors |-> run[c].errors]

\* The handler re-raises without recording the failure.
RaiseFromRun_StatusKept(c) ==
    /\ repo' = repo
    /\ last' = Result(c, "raised")
    /\ run' = [run EXCEPT ![c] = IdleRun]
    /\ quiet' = 0

\* except Exception: update_repository(indexing_status='failed'); raise
RaiseFromRun(c) ==
    /\ repo' = [repo EXCEPT !.indexing_status = "failed"]
    /\ last' = Result(c, "raised")
    /\ run' = [run EXCEPT ![c] = IdleRun]
    /\ quiet' = 0

(* --------------------- RepositoryIndexer._index_file ------------------- *)
\* The outcome of _index_file on the file at key k; fail: the embedding or
\* the write of the chunks fails.
index_file_inner(k, commit, uncommitted, coll, tbl, fail) ==
    LET chunks == FinalChunks(k, commit, uncommitted) IN
    IF ~Decodes(ReadFile(k)) \/ chunks = <<>>
    THEN [raised |-> FALSE, n |-> 0, coll |-> coll, files |-> tbl, ids |-> {}]
    ELSE IF fail
    THEN [raised |-> TRUE, n |-> 0, coll |-> coll, files |-> tbl,
          ids |-> Assigned(chunks)]
    ELSE IF AddRaises(coll, chunks)
    THEN [raised |-> TRUE, n |-> 0, coll |-> coll, files |-> tbl,
          ids |-> Assigned(chunks)]
    ELSE [raised |-> FALSE, n |-> Len(chunks),
          coll |-> add_chunks(coll, chunks),
          files |-> upsert_file(tbl, k, compute_file_hash(k), Len(chunks)),
          ids |-> Assigned(chunks)]

(* ---------------- RepositoryIndexer.index_repository ------------------- *)
FullBegin(c, force) ==
    /\ run[c].pc = "idle"
    /\ runs < MaxRuns
    /\ runs' = runs + 1
    /\ repo' = [repo EXCEPT !.indexing_status = "in_progress"]
    /\ run' = [run EXCEPT ![c] = [IdleRun EXCEPT !.pc = "setup",
                   !.kind = "full", !.force = force,
                   !.total_before = repo.total_chunks]]
    /\ UNCHANGED <<envVars, files, collection, assigned, last, quiet>>

FullSetup(c) ==
    /\ run[c].pc = "setup"
    /\ run[c].kind = "full"
    /\ IF ~gitValid
       THEN RaiseFromRun(c)
       ELSE /\ run' = [run EXCEPT ![c].pc = "files", ![c].todo = get_tracked_files,
                                  ![c].latest = headCommit]
            /\ UNCHANGED <<repo, last, quiet>>
    /\ UNCHANGED <<envVars, files, collection, assigned, runs>>

\* The skip test of the loop over tracked_files.
FullSkips(p, force) ==
    \/ ~should_index_file(p)
    \/ /\ ~force
       /\ RelKey(p) \in DOMAIN files
       /\ files[RelKey(p)].file_hash = compute_file_hash(RelKey(p))

NextTracked(todo) == CHOOSE p \in todo : \A q \in todo : Rank(p) <= Rank(q)

FullFile(c) ==
    /\ run[c].pc = "files"
    /\ run[c].kind = "full"
    /\ run[c].todo # {}
    /\ LET p == NextTracked(run[c].todo) IN
       IF FullSkips(p, run[c].force)
       THEN /\ run' = [run EXCEPT ![c].todo = @ \ {p},
                                  ![c].skipped_files = @ + 1]
            /\ UNCHANGED <<files, collection, assigned>>
       ELSE \E fail \in BOOLEAN :
            LET r == index_file_inner(RelKey(p), run[c].latest, FALSE,
                                      collection, files, fail) IN
            /\ collection' = r.coll
            /\ files' = r.files
            /\ assigned' = assigned \cup r.ids
            /\ run' = [run EXCEPT ![c].todo = @ \ {p},
                   ![c].total_chunks = IF r.raised THEN @ ELSE @ + r.n,
                   ![c].indexed_files = IF r.raised THEN @ ELSE @ + 1,
                   ![c].errors = IF r.raised THEN @ + 1 ELSE @]
    /\ UNCHANGED <<envVars, repo, runs, last, quiet>>

FullFinish(c) ==
    /\ run[c].pc = "files"
    /\ run[c].kind = "full"
    /\ run[c].todo = {}
    /\ repo' = [indexing_status |-> "completed",
                total_chunks |-> run[c].total_chunks,
                total_files |-> run[c].indexed_files,
                last_commit_hash |-> run[c].latest]
    /\ quiet' = IF run[c].errors = 0 THEN quiet + 1 ELSE 0
    /\ last' = [Result(c, "returned") EXCEPT !.quiet = quiet']
    /\ run' = [run EXCEPT ![c] = IdleRun]
    /\ UNCHANGED <<envVars, files, collection, assigned, runs>>

(* ----------------- RepositoryIndexer.incremental_index ----------------- *)
\* get_modified_files: tracked files whose working-tree content differs
\* from HEAD.
ModifiedFiles == {p \in Paths : fs[p] # head[p]}

IncBegin(c) ==
    /\ run[c].pc = "idle"
    /\ runs < MaxRuns
    /\ runs' = runs + 1
    /\ IF ~gitValid
       THEN /\ last' = [Result(c, "raised") EXCEPT !.kind = "inc"]
            /\ UNCHANGED run
       ELSE /\ run' = [run EXCEPT ![c] = [IdleRun EXCEPT !.pc = "files",
                          !.kind = "inc", !.todo = ModifiedFiles,
                          !.total_before = repo.total_chunks]]
            /\ UNCHANGED last
    /\ quiet' = 0
    /\ UNCHANGED <<envVars, repo, files, collection, assigned>>

IncFile(c) ==
    /\ run[c].pc = "files"
    /\ run[c].kind = "inc"
    /\ \E p \in run[c].todo :
       IF ~should_index_file(p)
       THEN /\ run' = [run EXCEPT ![c].todo = @ \ {p}]
            /\ UNCHANGED <<files, collection, assigned>>
       ELSE \E fail \in BOOLEAN :
            LET r == index_file_inner(AbsKey(p), 0, TRUE,
                         delete_chunks(collection, AbsKey(p)), files, fail) IN
            /\ collection' = r.coll
            /\ files' = r.files
            /\ assigned' = assigned \cup r.ids
            /\ run' = [run EXCEPT ![c].todo = @ \ {p},
                   ![c].total_chunks = IF r.raised THEN @ ELSE @ + r.n,
                   ![c].indexed_files = IF r.raised THEN @ ELSE @ + 1,
                   ![c].errors = IF r.raised THEN @ + 1 ELSE @]
    /\ UNCHANGED <<envVars, repo, runs, last, quiet>>

IncFinish(c) ==
    /\ run[c].pc = "files"
    /\ run[c].kind = "inc"
    /\ run[c].todo = {}
    /\ last' = Result(c, "returned")
    /\ run' = [run EXCEPT ![c] = IdleRun]
    /\ UNCHANGED <<envVars, repo, files, collection, assigned, runs, quiet>>

(* ------------- OptimizedRepositoryIndexer.index_repository ------------- *)
OptBegin(c, force) ==
    /\ run[c].pc = "idle"
    /\ runs < MaxRuns
    /\ runs' = runs + 1
    /\ repo' = [repo EXCEPT !.indexing_status = "in_progress"]
    /\ run' = [run EXCEPT ![c] = [IdleRun EXCEPT !.pc = "setup",
                   !.kind = "opt", !.force = force,
                   !.total_before = repo.total_chunks]]
    /\ UNCHANGED <<envVars, files, collection, assigned, last, quiet>>

\* The skip test of the filter loop: the record is looked up under the
\* relative path, the hash is taken of the absolute path.
OptSkips(p, force) ==
    \/ ~should_index_file(p)
    \/ /\ ~force
       /\ RelKey(p) \in DOMAIN files
       /\ files[RelKey(p)].file_hash = compute_file_hash(AbsKey(p))

OptSetup(c) ==
    /\ run[c].pc = "setup"
    /\ run[c].kind = "opt"
    /\ IF ~gitValid
       THEN RaiseFromRun(c)
       ELSE /\ run' = [run EXCEPT ![c].pc = "workers",
                   ![c].latest = headCommit,
                   ![c].todo = {p \in get_tracked_files :
                                  ~OptSkips(p, run[c].force)},
                   ![c].skipped_files =
                       Cardinality({p \in get_tracked_files :
                                      OptSkips(p, run[c].force)})]
            /\ UNCHANGED <<repo, last, quiet>>
    /\ UNCHANGED <<envVars, files, collection, assigned, runs>>

\* One _process_file future completes and its result is collected.
\* crash: the worker raised while parsing or chunking.
OptWorker(c) ==
    /\ run[c].pc = "workers"
    /\ \E p \in run[c].todo, crash \in BOOLEAN :
       LET chunks == FinalChunks(AbsKey(p), run[c].latest, FALSE)
           meta == [key |-> AbsKey(p),
                    file_hash |-> compute_file_hash(AbsKey(p)),
                    chunk_count |-> Len(chunks)] IN
       IF crash /\ Decodes(ReadFile(AbsKey(p)))
       THEN run' = [run EXCEPT ![c].todo = @ \ {p},
                               ![c].failed_files = @ + 1]
       ELSE IF chunks # <<>>
       THEN run' = [run EXCEPT ![c].todo = @ \ {p},
                               ![c].all_chunks = @ \o chunks,
                               ![c].file_metadata = Append(@, meta),
                               ![c].indexed_files = @ + 1]
       ELSE run' = [run EXCEPT ![c].todo = @ \ {p}]
    /\ UNCHANGED <<envVars, repo, files, collection, assigned, runs, last, quiet>>

Min(a, b) == IF a <= b THEN a ELSE b

\* Every batch runs to the end of the list.
BatchOf_ToTheEnd(chunks, b) ==
    SubSeq(chunks, b * BatchSize + 1, Len(chunks))

\* chunks[i:i + batch_size] for the batch numbered b (from 0).
BatchOf(chunks, b) ==
    SubSeq(chunks, b * BatchSize + 1, Min((b + 1) * BatchSize, Len(chunks)))

\* One iteration of _batch_embed_and_store; written lists the batches handed
\* to the vector store so far.
OptBatch(c) ==
    /\ run[c].pc = "workers"
    /\ run[c].todo = {}
    /\ run[c].batch * BatchSize < Len(run[c].all_chunks)
    /\ \E fail \in BOOLEAN :
       LET b == BatchOf(run[c].all_chunks, run[c].batch) IN
       IF fail \/ AddRaises(collection, b)
       THEN /\ RaiseFromRun(c)
            /\ assigned' = IF fail THEN assigned ELSE assigned \cup Assigned(b)
            /\ UNCHANGED collection
       ELSE /\ collection' = add_chunks(collection, b)
            /\ assigned' = assigned \cup Assigned(b)
            /\ run' = [run EXCEPT ![c].batch = @ + 1,
                                   ![c].written = Append(@, b)]
            /\ UNCHANGED <<repo, last, quiet>>
    /\ UNCHANGED <<envVars, files, runs>>

RECURSIVE UpsertAll(_, _)
UpsertAll(tbl, metas) ==
    IF metas = <<>> THEN tbl
    ELSE UpsertAll(upsert_file(tbl, Head(metas).key, Head(metas).file_hash,
                               Head(metas).chunk_count), Tail(metas))

OptFinish(c) ==
    /\ run[c].pc = "workers"
    /\ run[c].todo = {}
    /\ run[c].batch * BatchSize >= Len(run[c].all_chunks)
    /\ files' = UpsertAll(files, run[c].file_metadata)
    /\ repo' = [indexing_status |-> "completed",
                total_chunks |-> Len(run[c].all_chunks),
                total_files |-> run[c].indexed_files,
                last_commit_hash |-> run[c].latest]
    /\ quiet' = IF run[c].errors = 0 THEN quiet + 1 ELSE 0
    /\ last' = [Result(c, "returned") EXCEPT !.quiet = quiet',
                    !.total_chunks = Len(run[c].all_chunks)]
    /\ run' = [run EXCEPT ![c] = IdleRun]
    /\ UNCHANGED <<envVars, collection, assigned, runs>>

(* ------------------------ CodeRetriever.retrieve ----------------------- *)
\* Similarities are kept as multiples of 1 / SimScale.
SimScale == 4

\* client.get_collection finds the collection: an add_chunks call of the
\* indexer (create_collection, then the ids) has been entered before.
collection_exists == assigned # {}

\* The L2 distance ChromaDB reports between the query and a stored chunk.
Distance(chunk) ==
    IF chunk.name = "g" THEN 3 ELSE IF chunk.src = OneUnit THEN 0 ELSE 1

\* collection.query(n_results=n): the ids of the n nearest chunks, nearest
\* first; chunks at the same distance come in either order.
query(coll, n) ==
    LET m == Min(n, Cardinality(DOMAIN coll)) IN
    {r \in [1..m -> DOMAIN coll] :
        /\ \A i, j \in 1..m : i < j =>
              /\ r[i] # r[j]
              /\ Distance(coll[r[i]]) <= Distance(coll[r[j]])
        /\ \A id \in DOMAIN coll : \A i \in 1..m :
              (\A j \in 1..m : r[j] # id) =>
                  Distance(coll[r[i]]) <= Distance(coll[id])}

\* _format_results: similarity = 1 / (1 + distance); results below
\* min_similarity are dropped.
format_results(coll, r, min_similarity) ==
    LET chunkOf(id) ==
            [id |-> id, name |-> coll[id].name,
             file_path |-> coll[id].file_path,
             distance |-> Distance(coll[id]),
             similarity |-> SimScale \div (1 + Distance(coll[id]))]
        all == [i \in 1..Len(r) |-> chunkOf(r[i])]
        Keep(c) == ~(c.similarity < min_similarity) IN
    SelectSeq(all, Keep)

\* retrieve(collection_name, query, n_results, min_similarity): the error of
\* vector_store.query is logged and re-raised.
retrieve(n_results, min_similarity) ==
    /\ \A c \in Callers : run[c].pc = "idle"
    /\ call' = [fn |-> "retrieve", n_results |-> n_results,
                min_similarity |-> min_similarity]
    /\ IF ~collection_exists
       THEN local' = [fn |-> "retrieve", existed |-> FALSE,
                      outcome |-> "raised", chunks |-> <<>>]
       ELSE \E r \in query(collection, n_results) :
            local' = [fn |-> "retrieve", existed |-> TRUE,
                      outcome |-> "returned",
                      chunks |-> format_results(collection, r, min_similarity)]
    /\ UNCHANGED <<envVars, dbVars, runVars>>

(* ---------------------------- Reranker (MMR) -------------------------- *)
\* lambda_param is kept as a multiple of 1 / LambdaScale.
LambdaScale == 2

\* _text_similarity is kept as a multiple of 1 / JaccardScale.
JaccardScale == 2

\* The characters code is written in; a code is given by set(code.lower()).
Chars == {"a", "b"}
Codes == (SUBSET Chars) \ {{}}

\* A chunk that carries no 'similarity' key.
NoSimilarity == -1

\* The chunks handed to the reranker.
RerankChunks == [code : Codes, similarity : {NoSimilarity, 2, SimScale}]

\* Every list of at most n elements of S.
SeqsUpTo(S, n) == UNION {[1..m -> S] : m \in 0..n}

\* x.get('similarity', 0.0)
get_similarity(chunk) ==
    IF chunk.similarity = NoSimilarity THEN 0 ELSE chunk.similarity

\* sorted(chunks, key=similarity, reverse=True): stable, so chunks of equal
\* similarity keep their order.
RECURSIVE sorted_by_similarity(_)
sorted_by_similarity(chunks) ==
    IF chunks = <<>> THEN <<>>
    ELSE LET rest == sorted_by_similarity(SubSeq(chunks, 1, Len(chunks) - 1))
             c == chunks[Len(chunks)]
             n == Cardinality({i \in 1..Len(rest) :
                     get_similarity(rest[i]) >= get_similarity(c)}) IN
         SubSeq(rest, 1, n) \o <<c>> \o SubSeq(rest, n + 1, Len(rest))

\* _text_similarity: Jaccard similarity of the character sets.
text_similarity(code1, code2) ==
    IF code1 \cup code2 = {} THEN 0
    ELSE (Cardinality(code1 \cap code2) * JaccardScale)
            \div Cardinality(code1 \cup code2)

MaxOf(S) == CHOOSE x \in S : \A y \in S : y <= x

\* mmr_score = lambda * relevance - (1 - lambda) * max_sim_to_selected, as a
\* multiple of 1 / (LambdaScale * SimScale * JaccardScale).
mmr_score(candidate, selected, lambda_param) ==
    LET max_sim_to_selected ==
            MaxOf({text_similarity(candidate.code, selected[i].code) :
                       i \in 1..Len(selected)}) IN
    lambda_param * get_similarity(candidate) * JaccardScale
        - (LambdaScale - lambda_param) * max_sim_to_selected * SimScale

\* The inner loop compares with >= : the last of the best candidates wins.
max_idx_LastBest(remaining, selected, lambda_param) ==
    CHOOSE i \in 1..Len(remaining) :
        /\ \A j \in 1..Len(remaining) :
              mmr_score(remaining[j], selected, lambda_param)
                  <= mmr_score(remaining[i], selected, lambda_param)
        /\ \A j \in (i + 1)..Len(remaining) :
              mmr_score(remaining[j], selected, lambda_param)
                  < mmr_score(remaining[i], selected, lambda_param)

\* The index the inner loop leaves in max_idx: the first candidate whose
\* score is greater than the score of every candidate before it and not
\* less than any later one.
max_idx(remaining, selected, lambda_param) ==
    CHOOSE i \in 1..Len(remaining) :
        /\ \A j \in 1..Len(remaining) :
              mmr_score(remaining[j], selected, lambda_param)
                  <= mmr_score(remaining[i], selected, lambda_param)
        /\ \A j \in 1..(i - 1) :
              mmr_score(remaining[j], selected, lambda_param)
                  < mmr_score(remaining[i], selected, lambda_param)

RemoveAt(s, i) == SubSeq(s, 1, i - 1) \o SubSeq(s, i + 1, Len(s))

\* while len(selected) < k and remaining: move the best candidate over.
RECURSIVE mmr_loop(_, _, _, _)
mmr_loop(selected, remaining, k, lambda_param) ==
    IF Len(selected) < k /\ remaining # <<>>
    THEN LET i == max_idx(remaining, selected, lambda_param) IN
         mmr_loop(Append(selected, remaining[i]), RemoveAt(remaining, i),
                  k, lambda_param)
    ELSE selected

\* top_k or len(chunks)
top_k_or_len(top_k, chunks) == IF top_k # 0 THEN top_k ELSE Len(chunks)

mmr_rerank_by_similarity(chunks, lambda_param, top_k) ==
    IF chunks = <<>> THEN <<>>
    ELSE LET sorted_chunks == sorted_by_similarity(chunks) IN
         mmr_loop(<<Head(sorted_chunks)>>, Tail(sorted_chunks),
                  top_k_or_len(top_k, chunks), lambda_param)

\* chunks[:top_k] if top_k else chunks
first_top_k(chunks, top_k) ==
    IF top_k # 0 THEN SubSeq(chunks, 1, Min(top_k, Len(chunks))) ELSE chunks

\* mmr_rerank called without query_embedding.  With an embedder and no
\* similarity in the first chunk, _mmr_select fails on the missing query
\* embedding and the except branch answers.
mmr_rerank(chunks, lambda_param, top_k) ==
    IF chunks = <<>> THEN <<>>
    ELSE IF chunks[1].similarity # NoSimilarity
    THEN mmr_rerank_by_similarity(chunks, lambda_param, top_k)
    ELSE first_top_k(chunks, top_k)

(* ------------------------ Reranker.diversity_rerank -------------------- *)
\* The chunks handed to diversity_rerank; file_path "" is a chunk without a
\* 'file_path' key (chunk.get('file_path', '')).
DiversityChunks == [file_path : {"", "x.py", "y.py"},
                    chunk_type : {"function", "class"},
                    similarity : {2, SimScale}]

\* chunk in selected
InSeq(x, s) == \E i \in 1..Len(s) : s[i] = x

\* The first pass takes the chunks in order whatever their file.
first_pass_AnyFile(sorted_chunks, i, selected, k) ==
    SubSeq(sorted_chunks, 1, Min(IF k < 1 THEN 1 ELSE k, Len(sorted_chunks)))

\* First pass, from position i on: one chunk per file.
RECURSIVE first_pass(_, _, _, _)
first_pass(sorted_chunks, i, selected, k) ==
    IF i > Len(sorted_chunks) THEN selected
    ELSE LET chunk == sorted_chunks[i]
             seen_files == {selected[j].file_path : j \in 1..Len(selected)} IN
         IF chunk.file_path \notin seen_files
         THEN IF Len(selected) + 1 >= k THEN Append(selected, chunk)
              ELSE first_pass(sorted_chunks, i + 1, Append(selected, chunk), k)
         ELSE first_pass(sorted_chunks, i + 1, selected, k)

\* Second pass: chunks of a (file, type) pair not selected yet.
RECURSIVE second_pass(_, _, _, _)
second_pass(sorted_chunks, i, selected, k) ==
    IF i > Len(sorted_chunks) THEN selected
    ELSE LET chunk == sorted_chunks[i]
             keys == {<<selected[j].file_path, selected[j].chunk_type>> :
                         j \in 1..Len(selected)} IN
         IF ~InSeq(chunk, selected)
               /\ <<chunk.file_path, chunk.chunk_type>> \notin keys
         THEN IF Len(selected) + 1 >= k THEN Append(selected, chunk)
              ELSE second_pass(sorted_chunks, i + 1, Append(selected, chunk), k)
         ELSE second_pass(sorted_chunks, i + 1, selected, k)

\* Third pass: the most relevant of the chunks not selected yet.
RECURSIVE third_pass(_, _, _, _)
third_pass(sorted_chunks, i, selected, k) ==
    IF i > Len(sorted_chunks) THEN selected
    ELSE LET chunk == sorted_chunks[i] IN
         IF ~InSeq(chunk, selected)
         THEN IF Len(selected) + 1 >= k THEN Append(selected, chunk)
              ELSE third_pass(sorted_chunks, i + 1, Append(selected, chunk), k)
         ELSE third_pass(sorted_chunks, i + 1, selected, k)

diversity_rerank(chunks, top_k) ==
    IF chunks = <<>> THEN <<>>
    ELSE LET k == top_k_or_len(top_k, chunks)
             sorted_chunks == sorted_by_similarity(chunks)
             one == first_pass(sorted_chunks, 1, <<>>, k)
             two == IF Len(one) < k THEN second_pass(sorted_chunks, 1, one, k)
                    ELSE one IN
         IF Len(two) < k THEN third_pass(sorted_chunks, 1, two, k) ELSE two

(* --------------------- Reranker.reciprocal_rank_fusion ----------------- *)
\* reciprocal_rank_fusion(k=60)
RrfK == 60

\* The chunks of the ranked lists.  code is given by its first 50 characters
\* (head) and what follows them; id "" is a chunk without an 'id' key.
RrfChunks == {[id |-> "A", code |-> [head |-> "a", tail |-> 1]],
              [id |-> "B", code |-> [head |-> "b", tail |-> 1]],
              [id |-> "", code |-> [head |-> "p", tail |-> 1]],
              [id |-> "", code |-> [head |-> "p", tail |-> 2]]}

\* chunk.get('id', chunk.get('code', '')[:50])
chunk_id(chunk) == IF chunk.id # "" THEN chunk.id ELSE chunk.code.head

\* Scores are kept as multiples of 1 / ScoreUnit, the product of the
\* denominators k + rank + 1 that can occur.
RECURSIVE ProductTo(_, _)
ProductTo(a, b) == IF b < a THEN 1 ELSE b * ProductTo(a, b - 1)

ScoreUnit == ProductTo(RrfK + 1, RrfK + MaxRank)

RECURSIVE SumSeq(_)
SumSeq(q) == IF q = <<>> THEN 0 ELSE Head(q) + SumSeq(Tail(q))

\* What one list adds to the score of an id: 1 / (k + rank + 1) for every
\* position the id has in it.
list_score(result_list, id) ==
    SumSeq([i \in 1..Len(result_list) |->
               IF chunk_id(result_list[i]) = id
               THEN ScoreUnit \div (RrfK + i) ELSE 0])

rrf_score(result_lists, id) ==
    SumSeq([l \in 1..Len(result_lists) |-> list_score(result_lists[l], id)])

RECURSIVE Flatten(_)
Flatten(result_lists) ==
    IF result_lists = <<>> THEN <<>>
    ELSE Head(result_lists) \o Flatten(Tail(result_lists))

\* rrf_scores.values() in insertion order: for every id the chunk it was
\* first seen with, and its score.
RECURSIVE rrf_items(_, _, _)
rrf_items(result_lists, chunks, seen) ==
    IF chunks = <<>> THEN <<>>
    ELSE IF chunk_id(Head(chunks)) \in seen
    THEN rrf_items(result_lists, Tail(chunks), seen)
    ELSE <<[chunk |-> Head(chunks),
            score |-> rrf_score(result_lists, chunk_id(Head(chunks)))]>>
         \o rrf_items(result_lists, Tail(chunks),
                      seen \cup {chunk_id(Head(chunks))})

\* sorted(rrf_scores.values(), key=score, reverse=True): stable.
RECURSIVE sorted_by_score(_)
sorted_by_score(items) ==
    IF items = <<>> THEN <<>>
    ELSE LET rest == sorted_by_score(SubSeq(items, 1, Len(items) - 1))
             x == items[Len(items)]
             n == Cardinality({i \in 1..Len(rest) :
                     rest[i].score >= x.score}) IN
         SubSeq(rest, 1, n) \o <<x>> \o SubSeq(rest, n + 1, Len(rest))

\* The fused chunks, each with its rrf_score.
reciprocal_rank_fusion(result_lists, top_k) ==
    IF result_lists = <<>> THEN <<>>
    ELSE first_top_k(sorted_by_score(
             rrf_items(result_lists, Flatten(result_lists), {})), top_k)

(* ------------------------- CodeChunker.chunk_code ---------------------- *)
max_chars == max_chunk_size * 4
overlap_chars == overlap * 4

\* _find_split_points: window = 10
window == 10

\* Lines of code: "x", " y", "", "#", "}" and a line longer than max_chars.
CodeLine == [kind |-> "code", indent |-> 0, len |-> 1]
InnerLine == [kind |-> "code", indent |-> 1, len |-> 2]
BlankLine == [kind |-> "blank", indent |-> 0, len |-> 0]
CommentLine == [kind |-> "comment", indent |-> 0, len |-> 1]
CloseLine == [kind |-> "close", indent |-> 0, len |-> 1]
LongLine == [kind |-> "code", indent |-> 0, len |-> max_chars + 1]

LineKinds == {CodeLine, InnerLine, BlankLine, CommentLine, CloseLine}

\* The units given to chunk_code: code.split('\n') of a unit of up to
\* MaxLines lines, at most two of them not plain code, or of one or two long
\* lines.
Units ==
    UNION {{[i \in 1..n |-> IF i = a THEN ka ELSE IF i = b THEN kb
                            ELSE CodeLine] :
               a \in 1..n, b \in 1..n, ka \in LineKinds, kb \in LineKinds} :
           n \in (window + 2)..MaxLines}
    \cup {[i \in 1..n |-> LongLine] : n \in 1..2}

\* len(code): the lines and the newlines between them.
code_length(lines) ==
    SumSeq([i \in 1..Len(lines) |-> lines[i].len]) + Len(lines) - 1

\* int(max_chars / avg_line_length), avg_line_length = len(code) / len(lines)
lines_per_chunk(lines) == (max_chars * Len(lines)) \div code_length(lines)

\* int(overlap_chars / avg_line_length)
overlap_lines(lines) == (overlap_chars * Len(lines)) \div code_length(lines)

\* _score_split_point; idx counts from 0.
score_split_point(lines, idx) ==
    IF idx >= Len(lines) THEN 0
    ELSE IF lines[idx + 1].kind = "blank" THEN 10
    ELSE IF lines[idx + 1].kind = "comment" THEN 8
    ELSE IF idx + 1 < Len(lines)
            /\ lines[idx + 2].indent < lines[idx + 1].indent THEN 7
    ELSE IF lines[idx + 1].kind = "close" THEN 6
    ELSE 1

Max(a, b) == IF a >= b THEN a ELSE b

\* One iteration of the while loop of _find_split_points: best_split.
best_split(lines, current_pos, target_chunk_size) ==
    LET target_pos == Min(current_pos + target_chunk_size, Len(lines))
        search_start == Max(current_pos + target_chunk_size - window,
                            current_pos)
        search_end == Min(target_pos + window, Len(lines))
        range == {i \in search_start..(search_end - 1) :
                     score_split_point(lines, i) > 0} IN
    IF range = {} THEN target_pos
    ELSE CHOOSE i \in range :
           /\ \A j \in range :
                 score_split_point(lines, j) <= score_split_point(lines, i)
           /\ \A j \in range :
                 j < i => score_split_point(lines, j)
                             < score_split_point(lines, i)

\* The slice of a part stops one line early.
split_with_overlap_ShortSlice(lines, split_points) ==
    [idx \in 1..Len(split_points) |->
        LET prev_end == IF idx = 1 THEN 0 ELSE split_points[idx - 1] IN
        [overlap_start |-> Max(0, prev_end - overlap_lines(lines)),
         split_point |-> split_points[idx] - 1,
         part_number |-> idx]]

\* The loop of _split_with_overlap over split_points: for every part the
\* slice lines[overlap_start:split_point] it holds.
split_with_overlap(lines, split_points) ==
    [idx \in 1..Len(split_points) |->
        LET prev_end == IF idx = 1 THEN 0 ELSE split_points[idx - 1] IN
        [overlap_start |-> Max(0, prev_end - overlap_lines(lines)),
         split_point |-> split_points[idx],
         part_number |-> idx]]

(* ----------------------------- specifications -------------------------- *)
AllIdle == \A c \in Callers : run[c].pc = "idle"

\* The repository changes between requests.
Env ==
    /\ AllIdle
    /\ \/ \E p \in Paths, c \in Contents : EditFile(p, c)
       \/ Commit
       \/ RemoveGitDir

FullStep(c) ==
    \/ \E force \in BOOLEAN : FullBegin(c, force)
    \/ FullSetup(c)
    \/ FullFile(c)
    \/ FullFinish(c)

IncStep(c) ==
    \/ IncBegin(c)
    \/ IncFile(c)
    \/ IncFinish(c)

OptStep(c) ==
    \/ \E force \in BOOLEAN : OptBegin(c, force)
    \/ OptSetup(c)
    \/ OptWorker(c)
    \/ OptBatch(c)
    \/ OptFinish(c)

\* RepositoryIndexer serving one request at a time.
Next == (Env \/ FullStep(1) \/ IncStep(1)) /\ UNCHANGED callVars

Spec == Init /\ [][Next]_vars

\* Full runs of either indexer variant, one request at a time.
NextOpt ==
    /\ (AllIdle /\ RemoveGitDir) \/ FullStep(1) \/ OptStep(1)
    /\ UNCHANGED callVars

SpecOpt == Init /\ [][NextOpt]_vars

\* Full runs requested by independent callers.
NextConc ==
    /\ \E c \in Callers : FullStep(c) \/ OptStep(c)
    /\ UNCHANGED callVars

SpecConc == Init /\ [][NextConc]_vars

\* Queries between the full runs of RepositoryIndexer.
NextRetrieve ==
    \/ FullStep(1) /\ UNCHANGED callVars
    \/ \E n \in 1..MaxResults, m \in {0, 2, SimScale} : retrieve(n, m)

SpecRetrieve == Init /\ [][NextRetrieve]_vars

\* The indexer has not been used: the state of a fresh repository.
IndexerAtRest ==
    /\ fs = [p \in Paths |-> IF p.ext = ".png" THEN Binary ELSE OneUnit]
    /\ head = fs
    /\ headCommit = 1
    /\ gitValid = TRUE
    /\ cwdInRepo = TRUE
    /\ dupPolicy = "raise"
    /\ edits = 0
    /\ repo = [indexing_status |-> "pending", total_chunks |-> 0,
               total_files |-> 0, last_commit_hash |-> 0]
    /\ files = EmptyFn
    /\ collection = EmptyFn
    /\ assigned = {}
    /\ run = [c \in Callers |-> IdleRun]
    /\ runs = 0
    /\ last = NoLast
    /\ quiet = 0

\* One call of mmr_rerank on any list of chunks.
InitMmr ==
    /\ IndexerAtRest
    /\ call \in [fn : {"mmr_rerank"},
                  chunks : SeqsUpTo(RerankChunks, MaxChunks),
                  lambda_param : 0..LambdaScale,
                  top_k : 0..(MaxChunks + 1)]
    /\ local = NoCall

MmrRerank ==
    /\ call.fn = "mmr_rerank"
    /\ local = NoCall
    /\ local' = [fn |-> "mmr_rerank",
                 result |-> mmr_rerank(call.chunks, call.lambda_param,
                                       call.top_k)]
    /\ UNCHANGED <<envVars, dbVars, runVars, call>>

SpecMmr == InitMmr /\ [][MmrRerank]_vars

\* One call of diversity_rerank on any list of chunks.
InitDiversity ==
    /\ IndexerAtRest
    /\ call \in [fn : {"diversity_rerank"},
                  chunks : SeqsUpTo(DiversityChunks, MaxChunks),
                  top_k : 0..(MaxChunks + 1)]
    /\ local = NoCall

DiversityRerank ==
    /\ call.fn = "diversity_rerank"
    /\ local = NoCall
    /\ local' = [fn |-> "diversity_rerank",
                 result |-> diversity_rerank(call.chunks, call.top_k)]
    /\ UNCHANGED <<envVars, dbVars, runVars, call>>

SpecDiversity == InitDiversity /\ [][DiversityRerank]_vars

\* One call of reciprocal_rank_fusion on any lists of chunks.
InitRrf ==
    /\ IndexerAtRest
    /\ call \in [fn : {"reciprocal_rank_fusion"},
                  result_lists :
                      SeqsUpTo(SeqsUpTo(RrfChunks, MaxRank), MaxLists),
                  top_k : {0, 2}]
    /\ local = NoCall

ReciprocalRankFusion ==
    /\ call.fn = "reciprocal_rank_fusion"
    /\ local = NoCall
    /\ local' = [fn |-> "reciprocal_rank_fusion",
                 result |-> reciprocal_rank_fusion(call.result_lists,
                                                   call.top_k)]
    /\ UNCHANGED <<envVars, dbVars, runVars, call>>

SpecRrf == InitRrf /\ [][ReciprocalRankFusion]_vars

\* chunk_code on one parsed unit.
InitChunk ==
    /\ IndexerAtRest
    /\ call \in [fn : {"chunk_code"}, lines : Units]
    /\ local = NoCall

\* chunk_code: a unit of at most max_chars characters is kept as it is, a
\* longer one enters _split_with_overlap and _find_split_points.
ChunkCode ==
    /\ call.fn = "chunk_code"
    /\ local = NoCall
    /\ local' = IF code_length(call.lines) <= max_chars
                THEN [fn |-> "chunk_code", pc |-> "kept", current_pos |-> 0,
                      split_points |-> <<>>, sub_chunks |-> <<>>]
                ELSE [fn |-> "chunk_code", pc |-> "find", current_pos |-> 0,
                      split_points |-> <<>>, sub_chunks |-> <<>>]
    /\ UNCHANGED <<envVars, dbVars, runVars, call>>

\* while current_pos < len(lines): one more split point.  A loop that ends
\* has found at most len(lines) points; the model follows it one point
\* further and no more.
FindSplitPoint ==
    /\ local.fn = "chunk_code"
    /\ local.pc = "find"
    /\ local.current_pos < Len(call.lines)
    /\ Len(local.split_points) <= Len(call.lines)
    /\ LET b == best_split(call.lines, local.current_pos,
                           lines_per_chunk(call.lines)) IN
       local' = [local EXCEPT !.split_points = Append(@, b),
                              !.current_pos = b]
    /\ UNCHANGED <<envVars, dbVars, runVars, call>>

\* _find_split_points has returned: the parts are cut.
SplitWithOverlap ==
    /\ local.fn = "chunk_code"
    /\ local.pc = "find"
    /\ local.current_pos >= Len(call.lines)
    /\ local' = [local EXCEPT !.pc = "split",
                   !.sub_chunks = split_with_overlap(call.lines,
                                                     local.split_points)]
    /\ UNCHANGED <<envVars, dbVars, runVars, call>>

NextChunk == ChunkCode \/ FindSplitPoint \/ SplitWithOverlap

SpecChunk == InitChunk /\ [][NextChunk]_vars

(* ------------------------------- claims -------------------------------- *)
\* A full run that returned, without force_reindex, right after another
\* error-free run on the same unchanged repository.
SecondQuietRun(kinds) ==
    /\ last.kind \in kinds
    /\ last.outcome = "returned"
    /\ ~last.force
    /\ last.quiet >= 2

\* C1: the second of two RepositoryIndexer.index_repository runs in a row on
\* an unchanged repository, without force_reindex, reports indexed_files = 0.
C1_SecondRunIndexesNothing ==
    SecondQuietRun({"full"}) => last.indexed_files = 0

\* C2: after the second full run on an unchanged repository without
\* force_reindex, the repository record's total_chunks equals its value after
\* the first run.
C2_TotalChunksUnchanged ==
    SecondQuietRun({"full", "opt"}) => repo.total_chunks = last.total_before

\* The step of the full run's loop that handles the next tracked file.
FullFileStep ==
    /\ run[1].pc = "files"
    /\ run[1].kind = "full"
    /\ run[1].todo # {}
    /\ run'[1].todo # run[1].todo

\* C3: in a full run an index-eligible file is skipped iff not forced and a
\* record with the hash of its current content exists; a file whose hash
\* differs from the stored one is re-indexed and its record takes the new
\* file_hash and chunk_count; with force_reindex no file is skipped for its
\* hash.
C3_HashDecidesSkip ==
    [][FullFileStep /\ should_index_file(NextTracked(run[1].todo))
         /\ run'[1].errors = run[1].errors =>
        LET p == NextTracked(run[1].todo)
            k == RelKey(p)
            skipped == run'[1].skipped_files = run[1].skipped_files + 1
            stored == k \in DOMAIN files
            same == stored /\ files[k].file_hash = HashBase + fs[p] IN
        /\ skipped <=> (~run[1].force /\ same)
        /\ run[1].force => ~skipped
        /\ (stored /\ ~same) =>
              /\ run'[1].indexed_files = run[1].indexed_files + 1
              /\ files'[k] = [file_hash |-> HashBase + fs[p],
                              chunk_count |-> Len(UnitNames(fs[p]))]]_vars

\* The step of incremental_index that handles one modified file.
IncFileStep(p) ==
    /\ run[1].pc = "files"
    /\ run[1].kind = "inc"
    /\ p \in run[1].todo
    /\ p \notin run'[1].todo

\* The chunks the collection holds for a file, under either spelling of its
\* path.
ChunksOfFile(coll, p) == {id \in DOMAIN coll : coll[id].file_path.p = p}

\* C4: after incremental_index has processed a modified file, the collection
\* holds for that file exactly the chunks of its current content and none of
\* the chunks stored for it before.
C4_IncrementalReplacesChunks ==
    [][\A p \in Paths :
        IncFileStep(p) /\ should_index_file(p)
          /\ run'[1].errors = run[1].errors =>
        /\ \A id \in ChunksOfFile(collection', p) :
              /\ collection'[id].src = fs[p]
              /\ collection'[id].is_uncommitted
        /\ {collection'[id].name : id \in ChunksOfFile(collection', p)}
              = {UnitNames(fs[p])[i] : i \in 1..Len(UnitNames(fs[p]))}]_vars

\* C5: no two distinct chunks written to the collection are ever given the
\* same id.
C5_ChunkIdsUnique ==
    \A a, b \in assigned : a.id = b.id => (a.p = b.p /\ a.src = b.src)

\* C6: no two indexing runs for the repository are in flight at the same
\* time.
C6_OneRunAtATime ==
    Cardinality({c \in Callers : run[c].pc # "idle"}) <= 1

\* C7: a full run of either variant first sets indexing_status to
\* in_progress and touches nothing else; the status stays in_progress while
\* the run is the only one in flight; the step that ends the run leaves
\* completed when it returns a result and failed when it raises.
C7_StatusLifecycle ==
    [][/\ (run[1].pc = "idle" /\ run'[1].pc # "idle") =>
            /\ repo'.indexing_status = "in_progress"
            /\ files' = files
            /\ collection' = collection
       /\ run'[1].pc # "idle" => repo'.indexing_status = "in_progress"
       /\ (run[1].pc # "idle" /\ run'[1].pc = "idle") =>
            /\ last'.outcome \in {"returned", "raised"}
            /\ last'.outcome = "returned" =>
                   repo'.indexing_status = "completed"
            /\ last'.outcome = "raised" =>
                   repo'.indexing_status = "failed"]_vars

\* A run of the parallel variant has raised and left the status failed.
C7_Witness ==
    /\ last.kind = "opt"
    /\ last.outcome = "raised"
    /\ repo.indexing_status = "failed"
    /\ AllIdle

\* C8: an incremental_index call that raises leaves indexing_status failed.
C8_IncrementalFailureMarksFailed ==
    [][(last' # last /\ last'.kind = "inc" /\ last'.outcome = "raised") =>
        repo'.indexing_status = "failed"]_vars

\* C9: a full run in which the write of some file's chunks failed does not
\* end as completed.
C9_NoCompletedRunWithLostChunks ==
    (last.kind \in {"full", "opt"} /\ last.outcome = "returned") =>
        last.errors = 0

\* C10: a completed run of the parallel variant has counted every tracked
\* file once: indexed_files + skipped_files + failed_files = total_files.
C10_EveryFileCounted ==
    (last.kind = "opt" /\ last.outcome = "returned") =>
        last.indexed_files + last.skipped_files + last.failed_files
            = last.total_files

\* C11: retrieve returns an empty list, not an error, when the collection of
\* the repository does not exist because nothing has been indexed yet.
C11_EmptyListWithoutIndex ==
    (local.fn = "retrieve" /\ ~local.existed) =>
        (local.outcome = "returned" /\ local.chunks = <<>>)

\* C12: mmr_rerank(chunks, lambda, top_k = k) returns exactly
\* min(k, len(chunks)) chunks.
C12_MmrReturnsMinKLen ==
    local.fn = "mmr_rerank" =>
        Len(local.result) = Min(call.top_k, Len(call.chunks))

\* The input positions in descending order of similarity, positions of equal
\* similarity in input order.
DescendingPositions(chunks) ==
    CHOOSE r \in [1..Len(chunks) -> 1..Len(chunks)] :
        \A i, j \in 1..Len(chunks) : i < j =>
            \/ chunks[r[i]].similarity > chunks[r[j]].similarity
            \/ /\ chunks[r[i]].similarity = chunks[r[j]].similarity
               /\ r[i] < r[j]

\* Every chunk of a call's input carries a similarity.
AllHaveSimilarity ==
    \A i \in 1..Len(call.chunks) : call.chunks[i].similarity # NoSimilarity

\* C13: with lambda = 1 mmr_rerank returns the chunks in descending order of
\* similarity, chunks of equal similarity in input order, the most relevant
\* chunk first.
C13_LambdaOneKeepsSimilarityOrder ==
    (local.fn = "mmr_rerank" /\ call.lambda_param = LambdaScale
        /\ AllHaveSimilarity) =>
        /\ Len(local.result) <= Len(call.chunks)
        /\ \A i \in 1..Len(local.result) :
              local.result[i] = call.chunks[DescendingPositions(call.chunks)[i]]

\* Three chunks came back with lambda = 1 from an input that was not in
\* descending order and held two different chunks of equal similarity.
C13_Witness ==
    /\ local.fn = "mmr_rerank"
    /\ call.lambda_param = LambdaScale
    /\ AllHaveSimilarity
    /\ Len(local.result) = 3
    /\ call.chunks[1].similarity < call.chunks[2].similarity
    /\ call.chunks[2].similarity = call.chunks[3].similarity
    /\ call.chunks[2].code # call.chunks[3].code

\* The file paths a list of chunks spans.
FilesOf(chunks) == {chunks[i].file_path : i \in 1..Len(chunks)}

\* C14: diversity_rerank(chunks, k) with k >= 1 on chunks that span at least
\* k distinct file paths returns at least k chunks, the first k of them from
\* k pairwise distinct files.
C14_FirstKFromDistinctFiles ==
    (local.fn = "diversity_rerank" /\ call.top_k >= 1
        /\ Cardinality(FilesOf(call.chunks)) >= call.top_k) =>
        /\ Len(local.result) >= call.top_k
        /\ \A i, j \in 1..call.top_k :
              i # j => local.result[i].file_path # local.result[j].file_path

\* k = 2 chunks were asked of three chunks, the two most similar of them from
\* the same file.
C14_Witness ==
    /\ local.fn = "diversity_rerank"
    /\ call.top_k = 2
    /\ Len(call.chunks) = 3
    /\ Cardinality(FilesOf(call.chunks)) = 2
    /\ call.chunks[1].file_path = call.chunks[2].file_path
    /\ call.chunks[3].similarity < call.chunks[2].similarity
    /\ Len(local.result) = 2

\* The id is ranked first in every input list.
FirstInEveryList(id) ==
    /\ call.result_lists # <<>>
    /\ \A l \in 1..Len(call.result_lists) :
          /\ call.result_lists[l] # <<>>
          /\ chunk_id(call.result_lists[l][1]) = id

\* C15: an item ranked first in every input list of reciprocal_rank_fusion
\* has the maximum fused score and is first in the fused output, and the
\* output holds every id at most once.
C15_FirstEverywhereIsFirst ==
    local.fn = "reciprocal_rank_fusion" =>
        /\ \A i, j \in 1..Len(local.result) :
              i # j => chunk_id(local.result[i].chunk)
                          # chunk_id(local.result[j].chunk)
        /\ \A id \in {chunk_id(c) : c \in RrfChunks} :
              FirstInEveryList(id) =>
                /\ local.result # <<>>
                /\ chunk_id(local.result[1].chunk) = id
                /\ \A i \in 1..Len(local.result) :
                      local.result[i].score <= local.result[1].score

\* The non-overlap region of part idx: from the split point of the part
\* before it (0 for the first part) to its own split point.
RegionStart(idx) == IF idx = 1 THEN 0 ELSE local.sub_chunks[idx - 1].split_point
RegionEnd(idx) == local.sub_chunks[idx].split_point

\* C16: when chunk_code has split a unit into parts, every line 0 ..
\* len(lines) - 1 of the unit lies in the non-overlap region of exactly one
\* part, consecutive regions are adjacent, and every part holds the lines of
\* its region.
C16_RegionsCoverUnitOnce ==
    (local.fn = "chunk_code" /\ local.pc = "split") =>
        /\ \A line \in 0..(Len(call.lines) - 1) :
              Cardinality({idx \in 1..Len(local.sub_chunks) :
                  RegionStart(idx) <= line /\ line < RegionEnd(idx)}) = 1
        /\ \A idx \in 1..Len(local.sub_chunks) :
              /\ local.sub_chunks[idx].overlap_start <= RegionStart(idx)
              /\ RegionStart(idx) < RegionEnd(idx)
        /\ RegionEnd(Len(local.sub_chunks)) = Len(call.lines)

\* A unit was split into three parts or more, one of them starting inside
\* the part before it.
C16_Witness ==
    /\ local.fn = "chunk_code"
    /\ local.pc = "split"
    /\ Len(local.sub_chunks) >= 3
    /\ \E idx \in 2..Len(local.sub_chunks) :
          local.sub_chunks[idx].overlap_start
              < local.sub_chunks[idx - 1].split_point

\* ---------------------------------------------------------------------
\* Context assembly (retrieval/context.py).  Strings are modelled by their
\* lengths: the budget is a budget of characters.
\* ---------------------------------------------------------------------

\* ContextAssembler(max_tokens): the token budget of the assembler.
max_tokens == 10

\* self.max_chars = max_tokens * 4
context_max_chars == max_tokens * 4

\* The chunks handed to the assembler.  A described chunk carries name,
\* chunk_type, language, start_line, end_line and similarity; a bare one
\* only its file path and its code.
ContextChunks ==
    [file_path : {4}, code : {4, 8, 30}, described : BOOLEAN]

\* len(name), len(chunk_type), len(language) of a described chunk, and the
\* lengths of "Lines 1-9" and of "Relevance: 50.00%".
NameLen == 3
ChunkTypeLen == 8
LanguageLen == 6
LinesItemLen == 9
RelevanceItemLen == 17

\* len(language): chunk.get('language', '')
language_len(chunk) == IF chunk.described THEN LanguageLen ELSE 0

\* len(" ".join(header_parts)): "[idx]", then the file path, then
\* "chunk_type: name" and "(language)" when metadata is included.
header_len(chunk, index, include_metadata, include_file_paths) ==
    (IF index < 10 THEN 3 ELSE 4)
    + (IF include_file_paths THEN 1 + chunk.file_path ELSE 0)
    + (IF include_metadata /\ chunk.described
       THEN (1 + ChunkTypeLen + 2 + NameLen) + (1 + LanguageLen + 2)
       ELSE 0)

\* len(f"```{language}\n{code}\n```")
code_block_len(chunk) == 3 + language_len(chunk) + 1 + chunk.code + 1 + 3

\* len("(Lines a-b, Relevance: x%)"), with the newline that joins it to the
\* code block; 0 when there are no metadata items.
metadata_len(chunk, include_metadata) ==
    IF include_metadata /\ chunk.described
    THEN 1 + (1 + LinesItemLen + 2 + RelevanceItemLen + 1)
    ELSE 0

\* len(_format_chunk(chunk, index, include_metadata, include_file_paths))
format_chunk(chunk, index, include_metadata, include_file_paths) ==
    header_len(chunk, index, include_metadata, include_file_paths)
    + 1 + code_block_len(chunk)
    + metadata_len(chunk, include_metadata)

\* len("\n\n".join(context_parts))
join_len(context_parts) ==
    IF context_parts = <<>> THEN 0
    ELSE SumSeq(context_parts) + 2 * (Len(context_parts) - 1)

\* The assembler is called with a list of chunks; max_chunks 0 stands for
\* None.
InitContext ==
    /\ IndexerAtRest
    /\ call \in [fn : {"assemble_context"},
                  chunks : SeqsUpTo(ContextChunks, MaxChunks),
                  include_metadata : BOOLEAN,
                  include_file_paths : BOOLEAN,
                  max_chunks : 0..2]
    /\ local = NoCall

\* Entry of assemble_context: "" for no chunks, otherwise chunks[:max_chunks]
\* when max_chunks is truthy, and the loop starts.
AssembleContext ==
    /\ call.fn = "assemble_context"
    /\ local = NoCall
    /\ local' = IF call.chunks = <<>>
                THEN [fn |-> "assemble_context", pc |-> "returned",
                      chunks |-> <<>>, idx |-> 1, context_parts |-> <<>>,
                      total_chars |-> 0, context |-> 0]
                ELSE [fn |-> "assemble_context", pc |-> "loop",
                      chunks |-> IF call.max_chunks # 0
                                 THEN SubSeq(call.chunks, 1,
                                        IF call.max_chunks < Len(call.chunks)
                                        THEN call.max_chunks
                                        ELSE Len(call.chunks))
                                 ELSE call.chunks,
                      idx |-> 1, context_parts |-> <<>>,
                      total_chars |-> 0, context |-> 0]
    /\ UNCHANGED <<envVars, dbVars, runVars, call>>

\* One turn of "for idx, chunk in enumerate(chunks, 1)": the chunk is
\* formatted; the loop breaks when total_chars + len(chunk_text) is over
\* max_chars, else the text is appended and counted.
FormatChunk ==
    /\ local.fn = "assemble_context"
    /\ local.pc = "loop"
    /\ IF local.idx > Len(local.chunks)
       THEN local' = [local EXCEPT !.pc = "join"]
       ELSE LET chunk_text == format_chunk(local.chunks[local.idx], local.idx,
                                  call.include_metadata,
                                  call.include_file_paths)
            IN  IF local.total_chars + chunk_text > context_max_chars
                THEN local' = [local EXCEPT !.pc = "join"]
                ELSE local' = [local EXCEPT
                        !.context_parts = Append(@, chunk_text),
                        !.total_chars = @ + chunk_text,
                        !.idx = @ + 1]
    /\ UNCHANGED <<envVars, dbVars, runVars, call>>

\* context = "\n\n".join(context_parts); return context
JoinContext ==
    /\ local.fn = "assemble_context"
    /\ local.pc = "join"
    /\ local' = [local EXCEPT !.pc = "returned",
                              !.context = join_len(local.context_parts)]
    /\ UNCHANGED <<envVars, dbVars, runVars, call>>

NextContext == AssembleContext \/ FormatChunk \/ JoinContext

SpecContext == InitContext /\ [][NextContext]_vars

\* C17: the text assemble_context returns, separators included, is never
\* longer than max_chars = max_tokens * 4.
C17_ContextWithinBudget ==
    (local.fn = "assemble_context" /\ local.pc = "returned") =>
        local.context <= context_max_chars

\* ---------------------------------------------------------------------
\* Batched embedding with retries (core/embedder.py, OpenAIEmbedder).
\* ---------------------------------------------------------------------

\* OpenAIEmbedder(batch_size, max_retries): the request cap of the embedder
\* and its attempt limit.  No caller in the repository passes max_retries.
embedder_batch_size == 2
max_retries == 3

\* 2 ** n
RECURSIVE Pow2(_)
Pow2(n) == IF n = 0 THEN 1 ELSE 2 * Pow2(n - 1)

\* min(batch_size, self.batch_size)
capped_batch_size(batch_size) ==
    IF batch_size < embedder_batch_size THEN batch_size
    ELSE embedder_batch_size

\* texts[i:i + batch_size], as the positions (from 1) of the texts in it.
batch_of(n, i, batch_size) ==
    [j \in 1..((IF i + batch_size < n THEN i + batch_size ELSE n) - i)
        |-> i + j]

\* embed_batch is called with n texts; text t is written t, and so is the
\* vector the provider computes for it.
InitEmbed ==
    /\ IndexerAtRest
    /\ call \in [fn : {"embed_batch"},
                  texts : {[t \in 1..n |-> t] : n \in 0..MaxTexts},
                  batch_size : 1..(embedder_batch_size + 1)]
    /\ local = NoCall

\* Entry of embed_batch: the batch size is capped and the loop over
\* range(0, len(texts), batch_size) starts; with no text it returns at once.
\* tries and waits hold, for every batch begun, the number of requests made
\* for it and the sleeps between them.
EmbedBatch ==
    /\ call.fn = "embed_batch"
    /\ local = NoCall
    /\ local' = [fn |-> "embed_batch",
                 pc |-> IF call.texts = <<>> THEN "returned" ELSE "request",
                 batch_size |-> capped_batch_size(call.batch_size),
                 i |-> 0, attempt |-> 0, embeddings |-> <<>>,
                 tries |-> <<>>, waits |-> <<>>]
    /\ UNCHANGED <<envVars, dbVars, runVars, call>>

\* The first request of a batch opens its entries in tries and waits.
Requested(q, attempt, new) ==
    IF attempt = 0 THEN Append(q, new)
    ELSE [q EXCEPT ![Len(q)] = new]

\* self.client.embeddings.create succeeds: the response holds one vector per
\* text of the batch, in the order of the batch.  The retry loop breaks and
\* the next batch follows, or the vectors are returned.
RequestSucceeds ==
    /\ local.fn = "embed_batch"
    /\ local.pc = "request"
    /\ LET n == Len(call.texts)
           batch == batch_of(n, local.i, local.batch_size)
           next_i == local.i + local.batch_size
       IN  local' = [local EXCEPT
               !.embeddings = @ \o batch,
               !.tries = Requested(@, local.attempt, local.attempt + 1),
               !.waits = IF local.attempt = 0 THEN Append(@, <<>>) ELSE @,
               !.i = next_i,
               !.attempt = 0,
               !.pc = IF next_i < n THEN "request" ELSE "returned"]
    /\ UNCHANGED <<envVars, dbVars, runVars, call>>

\* A failure on the last attempt is passed over and the loop goes on with
\* the next batch.
RequestFails_BatchDropped ==
    /\ local.fn = "embed_batch"
    /\ local.pc = "request"
    /\ LET n == Len(call.texts)
           next_i == local.i + local.batch_size
           opened == IF local.attempt = 0 THEN Append(local.waits, <<>>)
                     ELSE local.waits
       IN  IF local.attempt = max_retries - 1
           THEN local' = [local EXCEPT
                   !.tries = Requested(@, local.attempt, local.attempt + 1),
                   !.waits = opened,
                   !.i = next_i,
                   !.attempt = 0,
                   !.pc = IF next_i < n THEN "request" ELSE "returned"]
           ELSE local' = [local EXCEPT
                   !.tries = Requested(@, local.attempt, local.attempt + 1),
                   !.waits = [opened EXCEPT ![Len(opened)] =
                                 Append(@, Pow2(local.attempt))],
                   !.attempt = @ + 1]
    /\ UNCHANGED <<envVars, dbVars, runVars, call>>

\* self.client.embeddings.create raises: on the last attempt
\* (attempt == max_retries - 1) the exception is raised again, otherwise the
\* call sleeps 2 ** attempt seconds and the next attempt follows.
RequestFails ==
    /\ local.fn = "embed_batch"
    /\ local.pc = "request"
    /\ LET opened == IF local.attempt = 0 THEN Append(local.waits, <<>>)
                     ELSE local.waits
       IN  IF local.attempt = max_retries - 1
           THEN local' = [local EXCEPT
                   !.tries = Requested(@, local.attempt, local.attempt + 1),
                   !.waits = opened,
                   !.pc = "raised"]
           ELSE local' = [local EXCEPT
                   !.tries = Requested(@, local.attempt, local.attempt + 1),
                   !.waits = [opened EXCEPT ![Len(opened)] =
                                 Append(@, Pow2(local.attempt))],
                   !.attempt = @ + 1]
    /\ UNCHANGED <<envVars, dbVars, runVars, call>>

NextEmbed == EmbedBatch \/ RequestSucceeds \/ RequestFails

SpecEmbed == InitEmbed /\ [][NextEmbed]_vars

EmbeddingModels == {"text-embedding-3-large", "text-embedding-3-small"}

\* OpenAIEmbedder.__init__: the dimension that goes with a model name.
embedding_dimension(model) ==
    IF model = "text-embedding-3-large" THEN 3072 ELSE 1536

\* No index has completed yet.
NoIdentity == [embedding_provider |-> "", embedding_model |-> "",
               embedding_dimension |-> 0]

NoQuery == [model |-> "", dimension |-> 0, vector_models |-> {},
            after_first_index |-> FALSE]

\* The embedding columns of a new row of the repositories table, with what
\* the model remembers beside them: the identity written by the first
\* completed index, the model that computed each vector of the collection,
\* and the embedder of the last query.
NewRepository ==
    [fn |-> "repository",
     embedding_provider |-> "local",
     embedding_model |-> "sentence-transformers/all-MiniLM-L6-v2",
     embedding_dimension |-> 384,
     first_index |-> NoIdentity,
     vector_model |-> EmptyFn,
     last_query |-> NoQuery]

\* The three embedding columns of the row.
Identity(row) ==
    [embedding_provider |-> row.embedding_provider,
     embedding_model |-> row.embedding_model,
     embedding_dimension |-> row.embedding_dimension]

InitIdentity ==
    /\ IndexerAtRest
    /\ call = NoCall
    /\ local = NewRepository

\* POST /repos/{id}/index with embedding_provider "openai" and a model: the
\* embedder is created and index_repository begins.  (Any other provider
\* makes create_embedder raise before anything is written.)
TriggerIndexing(embedding_model, force_reindex) ==
    /\ call = NoCall
    /\ FullBegin(1, force_reindex)
    /\ call' = [fn |-> "trigger_indexing",
                embedding_provider |-> "openai",
                embedding_model |-> embedding_model]
    /\ UNCHANGED local

\* index_repository at work with the embedder of the request: every chunk
\* it adds to the collection gets a vector of that embedder.
IndexWithEmbedder ==
    /\ call.fn = "trigger_indexing"
    /\ FullSetup(1) \/ FullFile(1)
    /\ local' = [local EXCEPT !.vector_model =
                    [id \in DOMAIN collection' |->
                        IF id \in DOMAIN collection
                        THEN local.vector_model[id]
                        ELSE call.embedding_model]]
    /\ call' = IF run'[1].pc = "idle" THEN NoCall ELSE call

\* UPDATE repositories SET embedding_provider = ?, embedding_model = ?,
\* embedding_dimension = ? WHERE id = ?
update_repository_embedding_info(row, provider, model, dimension) ==
    [row EXCEPT !.embedding_provider = provider,
                !.embedding_model = model,
                !.embedding_dimension = dimension]

\* index_repository returns and the route writes the embedding info of the
\* request's embedder into the row.
IndexingCompleted ==
    /\ call.fn = "trigger_indexing"
    /\ FullFinish(1)
    /\ LET row == update_repository_embedding_info(local,
                      call.embedding_provider, call.embedding_model,
                      embedding_dimension(call.embedding_model))
       IN  local' = [row EXCEPT !.first_index =
                        IF local.first_index = NoIdentity
                        THEN Identity(row) ELSE @]
    /\ call' = NoCall

\* POST /repos/{id}/query: the embedder is created from the row's provider
\* and model ("local" falls back to "openai", the model name is kept) and
\* the query vector is compared with the vectors of the collection.
Query ==
    /\ call = NoCall
    /\ local.fn = "repository"
    /\ AllIdle
    /\ local' = [local EXCEPT !.last_query =
                    [model |-> local.embedding_model,
                     dimension |-> embedding_dimension(local.embedding_model),
                     vector_models |-> {local.vector_model[id] :
                                          id \in DOMAIN local.vector_model},
                     after_first_index |-> local.first_index # NoIdentity]]
    /\ UNCHANGED <<envVars, dbVars, runVars, call>>

\* Indexing requests with any model, edits to the working tree between
\* them, and queries.
NextIdentity ==
    \/ \E m \in EmbeddingModels, force \in BOOLEAN : TriggerIndexing(m, force)
    \/ IndexWithEmbedder
    \/ IndexingCompleted
    \/ Query
    \/ /\ AllIdle
       /\ \E p \in Paths, c \in Contents : EditFile(p, c)
       /\ UNCHANGED callVars

SpecIdentity == InitIdentity /\ [][NextIdentity]_vars

\* C19: once a repository's first index has completed, its
\* embedding_provider, embedding_model and embedding_dimension stay what that
\* index wrote, whatever later indexing requests ask for, and every later
\* query uses the model that computed the vectors of the collection.
C19_IdentityFixedAfterFirstIndex ==
    local.fn = "repository" =>
        /\ local.first_index # NoIdentity =>
              Identity(local) = local.first_index
        /\ local.last_query.after_first_index =>
              local.last_query.vector_models \subseteq {local.last_query.model}

\* ---------------------------------------------------------------------
\* A new file is committed and the incremental route is called
\* (tests/integration/test_3_commits.py, file-watcher main.py).
\* ---------------------------------------------------------------------

\* A repository in which one text file is still to be added.
InitNewFile ==
    /\ fs \in {f \in [Paths -> Contents \cup {NoFile}] :
                 /\ \A p \in Paths : f[p] \in ContentsOf(p) \cup {NoFile}
                 /\ Cardinality({p \in Paths : f[p] = NoFile}) = 1
                 /\ f[PngFile] # NoFile}
    /\ head = fs
    /\ headCommit = 1
    /\ gitValid = TRUE
    /\ cwdInRepo \in BOOLEAN
    /\ dupPolicy \in {"raise", "ignore"}
    /\ edits = 0
    /\ repo = [indexing_status |-> "pending", total_chunks |-> 0,
               total_files |-> 0, last_commit_hash |-> 0]
    /\ files = EmptyFn
    /\ collection = EmptyFn
    /\ assigned = {}
    /\ run = [c \in Callers |-> IdleRun]
    /\ runs = 0
    /\ last = NoLast
    /\ quiet = 0
    /\ call = NoCall
    /\ local = NoCall

\* test_incremental_after_new_commit starts once the initial indexing has
\* completed, and reads the repository's counts.
ReadInitialStatus ==
    /\ call = NoCall
    /\ AllIdle
    /\ last.kind = "full"
    /\ last.outcome = "returned"
    /\ call' = [fn |-> "test_incremental_after_new_commit"]
    /\ local' = [fn |-> "test_incremental_after_new_commit",
                 pc |-> "status_read",
                 initial_files |-> repo.total_files,
                 initial_chunks |-> repo.total_chunks,
                 files_before |-> DOMAIN files,
                 collection_before |-> collection,
                 new_file |-> PngFile,
                 new_files |-> 0, new_chunks |-> 0]
    /\ UNCHANGED <<envVars, dbVars, runVars>>

\* add_new_feature_commit: a file that was not in the repository is written
\* with source code in it, then git add . and git commit.
add_new_feature_commit(p, c) ==
    /\ local.fn = "test_incremental_after_new_commit"
    /\ local.pc = "status_read"
    /\ fs[p] = NoFile
    /\ c \in {OneUnit, TwoUnits}
    /\ fs' = [fs EXCEPT ![p] = c]
    /\ head' = fs'
    /\ headCommit' = headCommit + 1
    /\ quiet' = 0
    /\ local' = [local EXCEPT !.pc = "committed", !.new_file = p]
    /\ UNCHANGED <<gitValid, cwdInRepo, dupPolicy, edits, dbVars,
                   run, runs, last, call>>

\* POST /repos/{id}/index/incremental, from the test or from the watcher's
\* _on_new_commit: incremental_index begins.
PostIncremental ==
    /\ local.fn = "test_incremental_after_new_commit"
    /\ local.pc = "committed"
    /\ IncBegin(1)
    /\ local' = [local EXCEPT !.pc = "indexing"]
    /\ UNCHANGED call

\* The test reads the counts again once incremental_index has returned.
ReadNewStatus ==
    /\ local.fn = "test_incremental_after_new_commit"
    /\ local.pc = "indexing"
    /\ IncFinish(1)
    /\ local' = [local EXCEPT !.pc = "indexed",
                              !.new_files = repo.total_files,
                              !.new_chunks = repo.total_chunks]
    /\ UNCHANGED call

\* The initial indexing, a developer's uncommitted edits of files of the
\* repository, and the test.
NextNewFile ==
    \/ FullStep(1) /\ UNCHANGED callVars
    \/ /\ AllIdle
       /\ \E p \in get_tracked_files, c \in Contents : EditFile(p, c)
       /\ UNCHANGED callVars
    \/ ReadInitialStatus
    \/ \E p \in Paths, c \in Contents : add_new_feature_commit(p, c)
    \/ PostIncremental
    \/ IncFile(1) /\ UNCHANGED callVars
    \/ ReadNewStatus

SpecNewFile == InitNewFile /\ [][NextNewFile]_vars

\* C20: when a new file has been added and committed and the incremental
\* indexing run that follows has returned, the file is indexed and the
\* repository's indexed-file count and total chunk count are both larger
\* than before the commit.
C20_NewFileIndexedIncrementally ==
    (local.fn = "test_incremental_after_new_commit" /\ local.pc = "indexed") =>
        /\ \E k \in DOMAIN files : k.p = local.new_file
        /\ local.new_files > local.initial_files
        /\ local.new_chunks > local.initial_chunks

\* C21: every chunk mmr_rerank returns carries an mmr_rank field equal to
\* its position (from 1) in the output, also when the chunks are ranked by
\* their precomputed similarity.
C21_MmrRankIsPosition ==
    local.fn = "mmr_rerank" =>
        \A i \in 1..Len(local.result) :
            /\ "mmr_rank" \in DOMAIN local.result[i]
            /\ local.result[i].mmr_rank = i

\* ---------------------------------------------------------------------
\* Debounced file events (file-watcher watcher.py, DebounceHandler).  The
\* handler's fields are kept in local; time is counted in whole seconds.
\* ---------------------------------------------------------------------

\* The monitored files of test_debounce_handler.
WatchedFiles == {"/test/file1.py", "/test/file2.js"}

\* DebounceHandler(debounce_seconds)
debounce_seconds == 2

\* A timer id that is not in use: neither alive nor referenced by _timer.
FreeTimer(timers, timer) ==
    CHOOSE id \in 1..(MaxEvents + 2) :
        /\ id \notin DOMAIN timers \cup {timer}
        /\ \A j \in 1..(id - 1) : j \in DOMAIN timers \cup {timer}

\* A function without the argument x.
Without(f, x) == [y \in DOMAIN f \ {x} |-> f[y]]

\* A function with x mapped to v.
With(f, x, v) == [y \in DOMAIN f \cup {x} |-> IF y = x THEN v ELSE f[y]]

\* threading.Timer(debounce_seconds, _process_pending_changes).start()
start_timer(timers, id, current_time) ==
    With(timers, id, [due |-> current_time + debounce_seconds,
                      st |-> "scheduled"])

\* Timer.cancel(): stops a timer that is still waiting; a timer whose wait
\* is over runs its function all the same.
cancel_timer(timers, id) ==
    IF id \in DOMAIN timers /\ timers[id].st = "scheduled"
    THEN Without(timers, id) ELSE timers

\* __init__: nothing pending, no timer.  calls_since_event, last_event,
\* early and raced are what the model remembers of the callbacks made.
InitDebounce ==
    /\ IndexerAtRest
    /\ call = [fn |-> "DebounceHandler"]
    /\ local = [fn |-> "DebounceHandler",
                now |-> 0,
                pending_changes |-> EmptyFn,
                timers |-> EmptyFn,
                timer |-> 0,
                events |-> 0,
                last_event |-> EmptyFn,
                calls_since_event |-> EmptyFn,
                early |-> FALSE,
                raced |-> FALSE]

\* on_modified / on_created -> _handle_event(file_path) on a monitored file:
\* under the lock the time of the change is stored, the timer _timer refers
\* to is cancelled and a new one is started.
handle_event(file_path) ==
    /\ local.fn = "DebounceHandler"
    /\ local.events < MaxEvents
    /\ LET cancelled == IF local.timer # 0
                        THEN cancel_timer(local.timers, local.timer)
                        ELSE local.timers
           id == FreeTimer(cancelled, 0)
       IN  local' = [local EXCEPT
               !.pending_changes = With(@, file_path, local.now),
               !.timers = start_timer(cancelled, id, local.now),
               !.timer = id,
               !.events = @ + 1,
               !.last_event = With(@, file_path, local.now),
               !.calls_since_event = With(@, file_path, 0),
               !.raced = @ \/ (local.timer \in DOMAIN local.timers
                               /\ local.timers[local.timer].st = "fired")]
    /\ UNCHANGED <<envVars, dbVars, runVars, call>>

\* The wait of a timer ends: its thread goes on to call
\* _process_pending_changes and can no longer be cancelled.
TimerExpires(id) ==
    /\ local.fn = "DebounceHandler"
    /\ id \in DOMAIN local.timers
    /\ local.timers[id].st = "scheduled"
    /\ local.timers[id].due <= local.now
    /\ local' = [local EXCEPT !.timers[id].st = "fired"]
    /\ UNCHANGED <<envVars, dbVars, runVars, call>>

\* Every pending file counts as due.
files_to_process_AllPending(pending_changes, current_time) ==
    DOMAIN pending_changes

\* The files whose last change is debounce_seconds old or older.
files_to_process(pending_changes, current_time) ==
    {f \in DOMAIN pending_changes :
        current_time - pending_changes[f] >= debounce_seconds}

\* _process_pending_changes in the thread of timer id, under the lock: the
\* callback is called for every due file, and another timer is started when
\* changes are still pending.
process_pending_changes(id) ==
    /\ local.fn = "DebounceHandler"
    /\ id \in DOMAIN local.timers
    /\ local.timers[id].st = "fired"
    /\ LET done == files_to_process(local.pending_changes, local.now)
           left == [f \in DOMAIN local.pending_changes \ done |->
                       local.pending_changes[f]]
           ended == Without(local.timers, id)
           new == FreeTimer(ended, 0)
       IN  local' = [local EXCEPT
               !.pending_changes = left,
               !.timers = IF DOMAIN left # {}
                          THEN start_timer(ended, new, local.now)
                          ELSE ended,
               !.timer = IF DOMAIN left # {} THEN new ELSE @,
               !.calls_since_event =
                   [f \in DOMAIN @ |-> IF f \in done THEN @[f] + 1 ELSE @[f]],
               !.early = @ \/ \E f \in done :
                            local.now - local.last_event[f] < debounce_seconds]
    /\ UNCHANGED <<envVars, dbVars, runVars, call>>

\* A second passes: while a timer is waiting, or between two events.
Tick ==
    /\ local.fn = "DebounceHandler"
    /\ \/ \E id \in DOMAIN local.timers :
             local.timers[id].st = "scheduled" /\ local.timers[id].due > local.now
       \/ 0 < local.events /\ local.events < MaxEvents /\ local.now < MaxTime
    /\ local' = [local EXCEPT !.now = @ + 1]
    /\ UNCHANGED <<envVars, dbVars, runVars, call>>

NextDebounce ==
    \/ \E f \in WatchedFiles : handle_event(f)
    \/ \E id \in 1..(MaxEvents + 2) : TimerExpires(id)
    \/ \E id \in 1..(MaxEvents + 2) : process_pending_changes(id)
    \/ Tick

\* Timer threads run and get the lock, and time passes; events come or not.
SpecDebounce ==
    /\ InitDebounce
    /\ [][NextDebounce]_vars
    /\ WF_vars(\E id \in 1..(MaxEvents + 2) : TimerExpires(id))
    /\ WF_vars(\E id \in 1..(MaxEvents + 2) : process_pending_changes(id))
    /\ WF_vars(Tick)

\* Nothing is pending and every file that had an event has had its callback
\* once since its last event.
DebounceSettled ==
    /\ DOMAIN local.pending_changes = {}
    /\ \A f \in DOMAIN local.calls_since_event :
          local.calls_since_event[f] = 1

\* C22: the callback is made at most once per file after the file's last
\* event and never earlier than debounce_seconds after it, and once the
\* events have stopped every file with a pending change gets its callback.
C22_DebouncedCallbacks ==
    /\ [](local.fn = "DebounceHandler" =>
            /\ ~local.early
            /\ \A f \in DOMAIN local.calls_since_event :
                  local.calls_since_event[f] <= 1)
    /\ <>[](local.fn = "DebounceHandler" => DebounceSettled)

\* Both files have had their callback although an event arrived while a
\* timer thread was already past its wait.
C22_Witness ==
    /\ local.fn = "DebounceHandler"
    /\ local.raced
    /\ DOMAIN local.calls_since_event = WatchedFiles
    /\ DebounceSettled

\* C23: when a run of OptimizedRepositoryIndexer without force_reindex
\* filters the tracked files, a file whose indexed-file record was upserted
\* by an earlier run of that indexer, and whose content still has the
\* recorded hash, is found by the skip check and not indexed again.
C23_UpsertedRecordIsFoundBySkipCheck ==
    [][(/\ run[1].kind = "opt"
        /\ run[1].pc = "setup"
        /\ ~run[1].force
        /\ run'[1].pc = "workers")
       => \A p \in Paths :
             (/\ AbsKey(p) \in DOMAIN files
              /\ files[AbsKey(p)].file_hash = compute_file_hash(AbsKey(p)))
             => p \notin run'[1].todo]_vars

\* len(sub_code) of part idx: the lines lines[overlap_start:split_point]
\* joined by newlines.
SubCodeLength(idx) ==
    code_length(SubSeq(call.lines, local.sub_chunks[idx].overlap_start + 1,
                       local.sub_chunks[idx].split_point))

\* C24: every chunk chunk_code returns has at most max_chars characters,
\* each part of a split unit included, overlap and all.
C24_ChunksWithinMaxChars ==
    local.fn = "chunk_code" =>
        /\ local.pc = "kept" => code_length(call.lines) <= max_chars
        /\ local.pc = "split" =>
              \A idx \in 1..Len(local.sub_chunks) :
                  SubCodeLength(idx) <= max_chars

\* C25: in a run of the parallel indexer, batches are written only when no
\* file worker is left; the batches written hold at most batch_size chunks
\* each and are, one after the other, the collected chunks in order; and
\* indexed-file records change only once the batches written hold every
\* collected chunk.
C25_BatchesAfterWorkersThenRecords ==
    [][/\ (run'[1].kind = "opt" /\ run'[1].written # <<>>) =>
             /\ run'[1].todo = {}
             /\ \A b \in 1..Len(run'[1].written) :
                   /\ Len(run'[1].written[b]) >= 1
                   /\ Len(run'[1].written[b]) <= BatchSize
             /\ Len(Flatten(run'[1].written)) <= Len(run'[1].all_chunks)
             /\ Flatten(run'[1].written)
                   = SubSeq(run'[1].all_chunks, 1,
                            Len(Flatten(run'[1].written)))
       /\ (run[1].kind = "opt" /\ files' # files) =>
             Flatten(run[1].written) = run[1].all_chunks]_vars

\* Two files were collected and their chunks have been written in two
\* batches or more.
C25_Witness ==
    /\ run[1].kind = "opt"
    /\ Len(run[1].file_metadata) >= 2
    /\ Len(run[1].written) >= 2
    /\ Flatten(run[1].written) = run[1].all_chunks

\* C26: the split points _find_split_points has appended so far are strictly
\* increasing, so the loop ends within len(lines) iterations, and the list
\* it returns ends with len(lines).
C26_SplitPointsIncreaseToEnd ==
    local.fn = "chunk_code" =>
        /\ \A i \in 1..(Len(local.split_points) - 1) :
              local.split_points[i] < local.split_points[i + 1]
        /\ local.pc = "split" =>
              /\ local.split_points # <<>>
              /\ local.split_points[Len(local.split_points)]
                    = Len(call.lines)

\* ---------------------------------------------------------------------
\* CodeChunker._chunk_generic_text (core/chunker.py).  A text is modelled by
\* the lengths of its lines.
\* ---------------------------------------------------------------------

\* The line lengths of the texts: an empty line, a short line, a line of
\* half of max_chars and a line longer than max_chars.
TextLineLengths == {0, 1, max_chars \div 2, max_chars + 1}

\* content.split('\n') of the texts given to _chunk_generic_text.
GenericTexts == SeqsUpTo(TextLineLengths, MaxTextLines) \ {<<>>}

\* len(content): the lines and the newlines between them.
content_length(lines) == SumSeq(lines) + Len(lines) - 1

\* int(self.max_chars / avg_line_length) if avg_line_length > 0 else 50
text_lines_per_chunk(lines) ==
    IF content_length(lines) > 0
    THEN (max_chars * Len(lines)) \div content_length(lines)
    ELSE 50

\* int(self.overlap_chars / avg_line_length) if avg_line_length > 0 else 5
text_overlap_lines(lines) ==
    IF content_length(lines) > 0
    THEN (overlap_chars * Len(lines)) \div content_length(lines)
    ELSE 5

\* _chunk_generic_text on one text.
InitGenericText ==
    /\ IndexerAtRest
    /\ call \in [fn : {"_chunk_generic_text"}, lines : GenericTexts]
    /\ local = NoCall

\* The function is entered: i = 0, part_num = 1, chunks = [].
ChunkGenericText ==
    /\ call.fn = "_chunk_generic_text"
    /\ local = NoCall
    /\ local' = [fn |-> "_chunk_generic_text", pc |-> "loop", i |-> 0,
                 part_num |-> 1, chunks |-> <<>>]
    /\ UNCHANGED <<envVars, dbVars, runVars, call>>

\* while i < len(lines): one more chunk.  A loop whose window advances makes
\* at most len(lines) chunks; the model follows it one chunk further and no
\* more.
AppendTextChunk ==
    /\ local.fn = "_chunk_generic_text"
    /\ local.pc = "loop"
    /\ local.i < Len(call.lines)
    /\ Len(local.chunks) <= Len(call.lines)
    /\ LET end_idx == Min(local.i + text_lines_per_chunk(call.lines),
                          Len(call.lines)) IN
       local' = [local EXCEPT
                   !.chunks = Append(@, [start_line |-> local.i + 1,
                                         end_line |-> end_idx,
                                         part_num |-> local.part_num]),
                   !.i = @ + text_lines_per_chunk(call.lines)
                           - text_overlap_lines(call.lines),
                   !.part_num = @ + 1]
    /\ UNCHANGED <<envVars, dbVars, runVars, call>>

\* The loop has ended: the chunks are returned.
ReturnTextChunks ==
    /\ local.fn = "_chunk_generic_text"
    /\ local.pc = "loop"
    /\ local.i >= Len(call.lines)
    /\ local' = [local EXCEPT !.pc = "returned"]
    /\ UNCHANGED <<envVars, dbVars, runVars, call>>

NextGenericText == ChunkGenericText \/ AppendTextChunk \/ ReturnTextChunks

SpecGenericText == InitGenericText /\ [][NextGenericText]_vars

\* C27: in _chunk_generic_text every chunk starts later in the text than the
\* chunk before it, so the loop makes at most len(lines) chunks and ends.
C27_WindowAdvances ==
    local.fn = "_chunk_generic_text" =>
        /\ \A k \in 1..(Len(local.chunks) - 1) :
              local.chunks[k].start_line < local.chunks[k + 1].start_line
        /\ Len(local.chunks) <= Len(call.lines)

\* ---------------------------------------------------------------------
\* The two reads of a file in RepositoryIndexer._index_file and in
\* OptimizedRepositoryIndexer._process_file: open(file_path).read() for the
\* chunks and, later, _compute_file_hash(file_path) for the record.  The
\* working tree may be saved to at any moment.
\* ---------------------------------------------------------------------

\* The chunks built from a content that was read from the file at key k.
ChunksOfContent(k, content, commit, uncommitted) ==
    [i \in 1..Len(UnitNames(content)) |->
        [name |-> UnitNames(content)[i],
         file_path |-> k,
         src |-> content,
         commit_hash |-> commit,
         is_uncommitted |-> uncommitted]]

\* One call of _index_file or _process_file on a file of the repository.
InitTwoReads ==
    /\ fs \in {f \in [Paths -> Contents] :
                  \A p \in Paths : f[p] \in ContentsOf(p)}
    /\ head = fs
    /\ headCommit = 1
    /\ gitValid = TRUE
    /\ cwdInRepo = TRUE
    /\ dupPolicy = "raise"
    /\ edits = 0
    /\ repo = [indexing_status |-> "in_progress", total_chunks |-> 0,
               total_files |-> 0, last_commit_hash |-> 0]
    /\ files = EmptyFn
    /\ collection = EmptyFn
    /\ assigned = {}
    /\ run = [c \in Callers |-> IdleRun]
    /\ runs = 0
    /\ last = NoLast
    /\ quiet = 0
    /\ call \in [fn : {"_index_file", "_process_file"},
                  file_path : {AbsKey(p) : p \in Paths},
                  commit_hash : {1}]
    /\ local = NoCall

\* with open(file_path, 'r', encoding='utf-8') as f: content = f.read();
\* the chunks are parsed from content.  A file that does not decode, or
\* that gives no chunk, ends the call.
ReadContent ==
    /\ call.fn \in {"_index_file", "_process_file"}
    /\ local = NoCall
    /\ LET content == ReadFile(call.file_path)
           chunks == IF Decodes(content)
                     THEN ChunksOfContent(call.file_path, content,
                                          call.commit_hash, FALSE)
                     ELSE <<>> IN
       local' = [fn |-> call.fn,
                 pc |-> IF chunks = <<>> THEN "returned"
                        ELSE IF call.fn = "_index_file" THEN "chunked"
                        ELSE "added",
                 final_chunks |-> chunks,
                 file_metadata |-> [file_hash |-> EmptyHash,
                                    chunk_count |-> 0]]
    /\ UNCHANGED <<envVars, dbVars, runVars, call>>

\* _index_file: self.vector_store.add_chunks(collection_name, final_chunks)
AddChunks ==
    /\ local.fn = "_index_file"
    /\ local.pc = "chunked"
    /\ collection' = add_chunks(collection, local.final_chunks)
    /\ assigned' = assigned \cup Assigned(local.final_chunks)
    /\ local' = [local EXCEPT !.pc = "added"]
    /\ UNCHANGED <<envVars, repo, files, runVars, call>>

\* file_hash = self._compute_file_hash(file_path): the second read of the
\* file.  _index_file upserts the record, _process_file returns it.
ComputeFileHash ==
    /\ local.fn \in {"_index_file", "_process_file"}
    /\ local.pc = "added"
    /\ LET meta == [file_hash |-> compute_file_hash(call.file_path),
                    chunk_count |-> Len(local.final_chunks)] IN
       /\ local' = [local EXCEPT !.pc = "returned", !.file_metadata = meta]
       /\ files' = IF local.fn = "_index_file"
                   THEN upsert_file(files, call.file_path, meta.file_hash,
                                    meta.chunk_count)
                   ELSE files
    /\ UNCHANGED <<envVars, repo, collection, assigned, runVars, call>>

NextTwoReads ==
    \/ ReadContent
    \/ AddChunks
    \/ ComputeFileHash
    \/ \E p \in Paths, c \in Contents : EditFile(p, c) /\ UNCHANGED callVars

SpecTwoReads == InitTwoReads /\ [][NextTwoReads]_vars

\* C28: the file_hash of a record, stored by _index_file or returned by
\* _process_file, is the hash of the content the file's chunks were built
\* from.
C28_HashIsOfChunkedContent ==
    /\ \A k \in DOMAIN files : \A id \in DOMAIN collection :
          collection[id].file_path = k =>
              files[k].file_hash = HashBase + collection[id].src
    /\ (local.fn = "_process_file" /\ local.pc = "returned"
          /\ local.final_chunks # <<>>) =>
          \A i \in 1..Len(local.final_chunks) :
              local.file_metadata.file_hash
                  = HashBase + local.final_chunks[i].src

\* ---------------------------------------------------------------------
\* RepositoryIndexer.index_file, called by POST /repos/{repo_id}/index/file
\* when the file watcher reports a changed file.
\* ---------------------------------------------------------------------

\* index_file(repo_id, file_path, is_uncommitted=True): the path is resolved
\* against the repository path, the latest commit is read and _index_file is
\* called; an exception is re-raised.  fail: the embedding or the write of
\* the chunks fails.
IndexFile(p) ==
    /\ AllIdle
    /\ runs < MaxRuns
    /\ runs' = runs + 1
    /\ \E fail \in BOOLEAN :
       LET r == index_file_inner(AbsKey(p), headCommit, TRUE,
                                 collection, files, fail) IN
       IF ~gitValid
       THEN /\ local' = [fn |-> "index_file", file_path |-> AbsKey(p),
                         outcome |-> "raised", chunks_added |-> 0]
            /\ UNCHANGED <<files, collection, assigned>>
       ELSE /\ local' = [fn |-> "index_file", file_path |-> AbsKey(p),
                         outcome |-> IF r.raised THEN "raised"
                                     ELSE "returned",
                         chunks_added |-> r.n]
            /\ collection' = r.coll
            /\ files' = r.files
            /\ assigned' = assigned \cup r.ids
    /\ quiet' = 0
    /\ UNCHANGED <<envVars, repo, run, last, call>>

\* Full runs, saves and commits, and file-change requests, one at a time.
NextIndexFile ==
    \/ (Env \/ FullStep(1)) /\ UNCHANGED callVars
    \/ \E p \in Paths : IndexFile(p)

SpecIndexFile == Init /\ [][NextIndexFile]_vars

\* index_file has returned chunks for the file p, whose content differs from
\* the content some chunk of the file was made from.
ReindexedChangedFile(p) ==
    /\ runs' = runs + 1
    /\ run' = run
    /\ local'.file_path = AbsKey(p)
    /\ local'.outcome = "returned"
    /\ local'.chunks_added > 0
    /\ \E id \in ChunksOfFile(collection, p) : collection[id].src # fs[p]

\* C29: when index_file has re-indexed a file whose content changed, the
\* collection holds no chunk made from an earlier content of the file.
C29_NoChunkOfEarlierContent ==
    [][\A p \in Paths : ReindexedChangedFile(p) =>
          \A id \in ChunksOfFile(collection', p) :
              collection'[id].src = fs[p]]_vars

\* ---------------------------------------------------------------------
\* CodeParser._parse_python_simple (core/parser.py).  A line is modelled by
\* what its stripped text starts with.
\* ---------------------------------------------------------------------

\* 'def ...', 'class ...', any other statement, and an empty line.
PyLineKinds == {"def", "class", "code", "blank"}

\* content.split('\n') of the Python files given to the parser.
PyFiles == SeqsUpTo(PyLineKinds, MaxPyLines) \ {<<>>}

\* No chunk has been started: current_chunk = [].
NoCurrent == [open |-> FALSE, chunk_type |-> "code", start_line |-> 0]

\* _create_chunk(code, chunk_type, name, file_path, start_line, end_line)
create_chunk(current, end_line) ==
    [chunk_type |-> current.chunk_type,
     start_line |-> current.start_line,
     end_line |-> end_line]

\* The loop 'for i, line in enumerate(lines, 1)' from line i on, and the
\* final chunk after it.
RECURSIVE parse_python_from(_, _, _, _)
parse_python_from(lines, i, chunks, current) ==
    IF i > Len(lines)
    THEN IF current.open THEN Append(chunks, create_chunk(current, Len(lines)))
         ELSE chunks
    ELSE IF lines[i] \in {"def", "class"}
    THEN parse_python_from(lines, i + 1,
             IF current.open THEN Append(chunks, create_chunk(current, i - 1))
             ELSE chunks,
             [open |-> TRUE,
              chunk_type |-> IF lines[i] = "def" THEN "function" ELSE "class",
              start_line |-> i])
    ELSE parse_python_from(lines, i + 1, chunks, current)

parse_python_simple(lines) == parse_python_from(lines, 1, <<>>, NoCurrent)

\* One call of _parse_python_simple on any Python file.
InitParsePython ==
    /\ IndexerAtRest
    /\ call \in [fn : {"_parse_python_simple"}, lines : PyFiles]
    /\ local = NoCall

ParsePythonSimple ==
    /\ call.fn = "_parse_python_simple"
    /\ local = NoCall
    /\ local' = [fn |-> "_parse_python_simple",
                 chunks |-> parse_python_simple(call.lines)]
    /\ UNCHANGED <<envVars, dbVars, runVars, call>>

SpecParsePython == InitParsePython /\ [][ParsePythonSimple]_vars

\* C30: when the parser has found a def or class line in a Python file, the
\* units it returns start at line 1, each unit starts on the line after the
\* end of the unit before it, and the last unit ends on the last line.
C30_UnitsCoverEveryLine ==
    (local.fn = "_parse_python_simple"
        /\ \E i \in 1..Len(call.lines) : call.lines[i] \in {"def", "class"})
    =>
        /\ local.chunks # <<>>
        /\ local.chunks[1].start_line = 1
        /\ \A j \in 1..Len(local.chunks) :
              local.chunks[j].start_line <= local.chunks[j].end_line
        /\ \A j \in 1..(Len(local.chunks) - 1) :
              local.chunks[j + 1].start_line = local.chunks[j].end_line + 1
        /\ local.chunks[Len(local.chunks)].end_line = Len(call.lines)

====
